---- MODULE Spec2Model ----
(***************************************************************************)
(* Verification model of the financial-statement core of SEC-MCP:          *)
(*   src/src/financial_data_client.py  (FinancialDataClient)               *)
(*   src/FinancialMCPs/shared/financial_analysis.py                        *)
(*       (FinancialMetrics, DCFModel, ComparativeAnalysis,                 *)
(*        TechnicalIndicators, MarketRegimeDetection)                      *)
(*   src/src/main.py, src/src/edgar_client.py                              *)
(*       (EdgarMCPServer.get_edgar_client, EdgarClient.__aenter__)         *)
(*                                                                         *)
(* Python values are modelled as follows.                                  *)
(*   dict            a function with a set of strings as domain; the       *)
(*                   empty dict {} is <<>>; d.get(k, default) is Get       *)
(*   ordered dict    ("units", whose iteration order the code depends on)  *)
(*                   a sequence of [label, values] pairs, distinct labels  *)
(*   list            a sequence                                            *)
(*   str             a string; comparisons of strings (the sort key, the   *)
(*                   suffix test) work on their code points, CodePoints    *)
(*   None            None where a dict is expected, NoneStr where a        *)
(*                   scalar is expected                                    *)
(*   float           the rational number it stands for, Rat(n, d); inf and *)
(*                   nan are the values Inf and NaN                        *)
(*   tuple           a sequence; a record of its components when they are  *)
(*                   of different kinds                                    *)
(*   exception       what the caller gets is Raised(message)               *)
(* JSON scalars (the "val" of an observation) are kept as their text.      *)
(***************************************************************************)
EXTENDS Integers, Sequences, FiniteSets, TLC

VARIABLES
    us_gaap,    \* facts["facts"]["us-gaap"]: tag -> concept entry
    call,       \* the call made last: its operation and arguments
    ret,        \* what that call returned
    rng,        \* the state of numpy's global random generator
    runs,       \* the calls of monte_carlo_dcf made so far, with their results
    frames,     \* thread -> the frame of the monte_carlo_dcf call it is running
    edgar_client,   \* EdgarMCPServer.edgar_client: None or a reference to a client
    clients,    \* the EdgarClient objects created so far, by reference
    tasks       \* task -> the calls of get_edgar_client it made, with their outcomes

vars == <<us_gaap, call, ret, rng, runs, frames, edgar_client, clients, tasks>>

\* ------------------------------------------------------------------ bounds

MaxObs == 3         \* observations in one series
MaxYears == 2       \* largest horizon requested
MaxCandidates == 3  \* length of a candidate-tag list
MaxTags == 2        \* tags present in a facts document
MaxUnits == 2       \* unit labels of one concept
MaxCalls == 3       \* calls of get_edgar_client one task makes

\* ------------------------------------------------------------------ Python values

None == [None |-> TRUE]
NoneStr == "<None>"
EmptyDict == <<>>

Get(d, k, default) == IF k \in DOMAIN d THEN d[k] ELSE default

\* The code points of the strings the model compares.
CodePoints(s) ==
    CASE s = "" -> <<>>
      [] s = "2020-12-31" -> <<50,48,50,48,45,49,50,45,51,49>>
      [] s = "2021-12-31" -> <<50,48,50,49,45,49,50,45,51,49>>
      [] s = "2022-12-31" -> <<50,48,50,50,45,49,50,45,51,49>>
      [] s = "2023-03-31" -> <<50,48,50,51,45,48,51,45,51,49>>
      [] s = "2023-06-30" -> <<50,48,50,51,45,48,54,45,51,48>>
      [] s = "2023-09-30" -> <<50,48,50,51,45,48,57,45,51,48>>
      [] s = "2023-12-31" -> <<50,48,50,51,45,49,50,45,51,49>>
      [] s = "2022-02-15" -> <<50,48,50,50,45,48,50,45,49,53>>
      [] s = "2023-02-15" -> <<50,48,50,51,45,48,50,45,49,53>>
      [] s = "2023-05-01" -> <<50,48,50,51,45,48,53,45,48,49>>
      [] s = "2023-08-01" -> <<50,48,50,51,45,48,56,45,48,49>>
      [] s = "2023-10-05" -> <<50,48,50,51,45,49,48,45,48,53>>
      [] s = "2024-02-15" -> <<50,48,50,52,45,48,50,45,49,53>>
      [] s = "2024-03-01" -> <<50,48,50,52,45,48,51,45,48,49>>
      [] s = "0001-22-000010" -> <<48,48,48,49,45,50,50,45,48,48,48,48,49,48>>
      [] s = "0001-23-000010" -> <<48,48,48,49,45,50,51,45,48,48,48,48,49,48>>
      [] s = "0001-24-000010" -> <<48,48,48,49,45,50,52,45,48,48,48,48,49,48>>
      [] s = "0002-24-000005" -> <<48,48,48,50,45,50,52,45,48,48,48,48,48,53>>
      [] s = "0001-23-000020" -> <<48,48,48,49,45,50,51,45,48,48,48,48,50,48>>
      [] s = "0001-23-000030" -> <<48,48,48,49,45,50,51,45,48,48,48,48,51,48>>
      [] s = "0001-23-000040" -> <<48,48,48,49,45,50,51,45,48,48,48,48,52,48>>
      [] s = "USD" -> <<85,83,68>>
      [] s = "EUR" -> <<69,85,82>>
      [] s = "shares" -> <<115,104,97,114,101,115>>
      [] s = "USD/shares" -> <<85,83,68,47,115,104,97,114,101,115>>
      [] s = "iso4217:USD" -> <<105,115,111,52,50,49,55,58,85,83,68>>
      [] s = "100" -> <<49,48,48>>
      [] s = "110" -> <<49,49,48>>
      [] s = "112" -> <<49,49,50>>
      [] s = "121" -> <<49,50,49>>
      [] s = "25" -> <<50,53>>
      [] s = "27" -> <<50,55>>
      [] s = "90" -> <<57,48>>
      [] s = "N/A" -> <<78,47,65>>

\* a < b for two sequences of code points: Python's order of str
RECURSIVE LexLess(_, _)
LexLess(a, b) ==
    IF b = <<>> THEN FALSE
    ELSE IF a = <<>> THEN TRUE
    ELSE IF Head(a) # Head(b) THEN Head(a) < Head(b)
    ELSE LexLess(Tail(a), Tail(b))

StrLess(s, t) == LexLess(CodePoints(s), CodePoints(t))
StrGeq(s, t) == ~StrLess(s, t)

\* s.endswith(suffix)
EndsWith(s, suffix) ==
    LET a == CodePoints(s)
        b == CodePoints(suffix)
    IN  /\ Len(a) >= Len(b)
        /\ SubSeq(a, Len(a) - Len(b) + 1, Len(a)) = b

\* lst[:k], for every integer k
SliceTo(lst, k) ==
    IF k >= 0
    THEN SubSeq(lst, 1, IF k < Len(lst) THEN k ELSE Len(lst))
    ELSE SubSeq(lst, 1, IF Len(lst) + k > 0 THEN Len(lst) + k ELSE 0)

\* ------------------------------------------------------------------ FinancialDataClient

\* the registries of semantic name -> candidate tags, in preference order
IncomeItems ==
    [revenues |-> <<"Revenues", "RevenueFromContractWithCustomerExcludingAssessedTax", "SalesRevenueNet">>,
     cost_of_revenue |-> <<"CostOfRevenue", "CostOfGoodsAndServicesSold", "CostOfGoodsSold">>,
     gross_profit |-> <<"GrossProfit">>,
     operating_expenses |-> <<"OperatingExpenses">>,
     research_development |-> <<"ResearchAndDevelopmentExpense">>,
     selling_general_admin |-> <<"SellingGeneralAndAdministrativeExpense">>,
     operating_income |-> <<"OperatingIncomeLoss">>,
     interest_expense |-> <<"InterestExpense">>,
     income_before_tax |-> <<"IncomeLossFromContinuingOperationsBeforeIncomeTaxesExtraordinaryItemsNoncontrollingInterest">>,
     income_tax_expense |-> <<"IncomeTaxExpenseBenefit">>,
     net_income |-> <<"NetIncomeLoss">>,
     earnings_per_share_basic |-> <<"EarningsPerShareBasic">>,
     earnings_per_share_diluted |-> <<"EarningsPerShareDiluted">>,
     shares_outstanding_basic |-> <<"WeightedAverageNumberOfSharesOutstandingBasic">>,
     shares_outstanding_diluted |-> <<"WeightedAverageNumberOfDilutedSharesOutstanding">>]

BalanceItems ==
    [cash_and_equivalents |-> <<"CashAndCashEquivalentsAtCarryingValue", "Cash">>,
     marketable_securities |-> <<"MarketableSecuritiesCurrent">>,
     accounts_receivable |-> <<"AccountsReceivableNetCurrent">>,
     inventory |-> <<"InventoryNet">>,
     current_assets |-> <<"AssetsCurrent">>,
     property_plant_equipment |-> <<"PropertyPlantAndEquipmentNet">>,
     goodwill |-> <<"Goodwill">>,
     intangible_assets |-> <<"IntangibleAssetsNetExcludingGoodwill">>,
     total_assets |-> <<"Assets">>,
     accounts_payable |-> <<"AccountsPayableCurrent">>,
     short_term_debt |-> <<"ShortTermBorrowings", "DebtCurrent">>,
     current_liabilities |-> <<"LiabilitiesCurrent">>,
     long_term_debt |-> <<"LongTermDebtNoncurrent", "LongTermDebt">>,
     total_liabilities |-> <<"Liabilities">>,
     common_stock |-> <<"CommonStockValue">>,
     retained_earnings |-> <<"RetainedEarningsAccumulatedDeficit">>,
     treasury_stock |-> <<"TreasuryStockValue">>,
     total_equity |-> <<"StockholdersEquity">>]

CashFlowItems ==
    [net_income |-> <<"NetIncomeLoss">>,
     depreciation_amortization |-> <<"DepreciationDepletionAndAmortization">>,
     stock_based_compensation |-> <<"ShareBasedCompensation">>,
     change_in_working_capital |-> <<"IncreaseDecreaseInOperatingCapital">>,
     operating_cash_flow |-> <<"NetCashProvidedByUsedInOperatingActivities">>,
     capital_expenditures |-> <<"PaymentsToAcquirePropertyPlantAndEquipment">>,
     acquisitions |-> <<"PaymentsToAcquireBusinessesNetOfCashAcquired">>,
     investment_purchases |-> <<"PaymentsToAcquireInvestments">>,
     investment_sales |-> <<"ProceedsFromSaleMaturityAndCollectionsOfInvestments">>,
     investing_cash_flow |-> <<"NetCashProvidedByUsedInInvestingActivities">>,
     debt_issuance |-> <<"ProceedsFromIssuanceOfDebt", "ProceedsFromIssuanceOfLongTermDebt">>,
     debt_repayment |-> <<"RepaymentsOfDebt", "RepaymentsOfLongTermDebt">>,
     stock_issuance |-> <<"ProceedsFromIssuanceOfCommonStock">>,
     stock_repurchase |-> <<"PaymentsForRepurchaseOfCommonStock">>,
     dividends_paid |-> <<"PaymentsOfDividends", "PaymentsOfDividendsCommonStock">>,
     financing_cash_flow |-> <<"NetCashProvidedByUsedInFinancingActivities">>,
     net_change_in_cash |-> <<"CashAndCashEquivalentsPeriodIncreaseDecrease">>,
     cash_beginning |-> <<"CashAndCashEquivalentsAtCarryingValue">>,
     cash_ending |-> <<"CashAndCashEquivalentsAtCarryingValue">>]

\* as _extract_concept, but a later candidate overrides an earlier one
RECURSIVE extract_concept_last(_, _)
extract_concept_last(facts, concept_names) ==
    IF concept_names = <<>> THEN None
    ELSE IF concept_names[Len(concept_names)] \in DOMAIN facts
         THEN facts[concept_names[Len(concept_names)]]
    ELSE extract_concept_last(facts, SubSeq(concept_names, 1, Len(concept_names) - 1))

\* _extract_concept: the entry of the first candidate that is a key of the facts
RECURSIVE extract_concept(_, _)
extract_concept(facts, concept_names) ==
    IF concept_names = <<>> THEN None
    ELSE IF Head(concept_names) \in DOMAIN facts THEN facts[Head(concept_names)]
    ELSE extract_concept(facts, Tail(concept_names))

\* Python's truth value of an Optional[Dict]: None and {} are false
Falsy(item_data) == item_data = None \/ item_data = EmptyDict

\* units.get(label, [])
UnitGet(units, label) ==
    IF \E i \in 1..Len(units) : units[i].label = label
    THEN units[CHOOSE i \in 1..Len(units) : units[i].label = label].values
    ELSE <<>>

\* the loop "for unit, values in units.items(): if ...: usd_data = values; break"
OtherCurrency(unit) == EndsWith(unit, "USD") \/ unit = "shares"

SelectUnitData(units) ==
    LET usd_data == UnitGet(units, "USD")
        hits == {i \in 1..Len(units) : OtherCurrency(units[i].label)}
    IN  IF usd_data # <<>> THEN usd_data
        ELSE IF hits # {} THEN units[CHOOSE i \in hits : \A j \in hits : i <= j].values
        ELSE usd_data

AnnualForms == {"10-K", "20-F", "40-F"}
QuarterlyForms == {"10-Q"}

\* as KeepForm, but the annual family also takes the quarterly report
KeepFormMixed(period, form) ==
    \/ period = "annual" /\ form \in AnnualForms \cup QuarterlyForms
    \/ period = "quarterly" /\ form \in QuarterlyForms

KeepForm(period, form) ==
    \/ period = "annual" /\ form \in AnnualForms
    \/ period = "quarterly" /\ form \in QuarterlyForms

FilterByForm(usd_data, period) ==
    SelectSeq(usd_data, LAMBDA value : KeepForm(period, Get(value, "form", "")))

\* the sort key: x.get("end", "")
EndKey(value) == Get(value, "end", "")

\* list.sort(key=..., reverse=True) is stable: an element goes behind every
\* element whose key is not smaller than its own
RECURSIVE InsertDesc(_, _)
InsertDesc(sorted, x) ==
    IF sorted = <<>> THEN <<x>>
    ELSE IF StrLess(EndKey(Head(sorted)), EndKey(x)) THEN <<x>> \o sorted
    ELSE <<Head(sorted)>> \o InsertDesc(Tail(sorted), x)

\* as SortByEndDesc, with reverse=True forgotten: oldest first
RECURSIVE SortByEndAsc(_)
SortByEndAsc(lst) ==
    IF lst = <<>> THEN <<>>
    ELSE LET rest == SortByEndAsc(Tail(lst))
             before == SelectSeq(rest, LAMBDA y : StrLess(EndKey(y), EndKey(Head(lst))))
             after == SelectSeq(rest, LAMBDA y : ~StrLess(EndKey(y), EndKey(Head(lst))))
         IN  before \o <<Head(lst)>> \o after

RECURSIVE SortByEndDesc(_)
SortByEndDesc(lst) ==
    IF lst = <<>> THEN <<>>
    ELSE InsertDesc(SortByEndDesc(SubSeq(lst, 1, Len(lst) - 1)), lst[Len(lst)])

\* as Truncate, but one entry too many is kept
TruncateOffByOne(filtered_values, period, years) ==
    IF period = "annual" THEN SliceTo(filtered_values, years + 1)
    ELSE SliceTo(filtered_values, years * 4 + 1)

\* "Limit to requested number of years"
Truncate(filtered_values, period, years) ==
    IF period = "annual" THEN SliceTo(filtered_values, years)
    ELSE SliceTo(filtered_values, years * 4)

FormatValue(value) ==
    [value |-> Get(value, "val", NoneStr),
     end_date |-> Get(value, "end", NoneStr),
     start_date |-> Get(value, "start", NoneStr),
     form |-> Get(value, "form", NoneStr),
     filed |-> Get(value, "filed", NoneStr),
     accession |-> Get(value, "accn", NoneStr)]

FormatValues(filtered_values) ==
    [i \in 1..Len(filtered_values) |-> FormatValue(filtered_values[i])]

UnitLabel(units) ==
    IF \E i \in 1..Len(units) : units[i].label = "USD" THEN "USD"
    ELSE IF units # <<>> THEN units[1].label
    ELSE "unknown"

\* one iteration of the loop of _filter_by_period
FilterItem(item_name, item_data, period, years) ==
    IF Falsy(item_data) THEN None
    ELSE LET units == Get(item_data, "units", EmptyDict)
             usd_data == SelectUnitData(units)
         IN  IF usd_data = <<>> THEN None
             ELSE [description |-> Get(item_data, "description", item_name),
                   unit |-> UnitLabel(units),
                   values |-> FormatValues(
                       Truncate(SortByEndDesc(FilterByForm(usd_data, period)), period, years))]

\* as filter_by_period, but an undisclosed item gets no slot at all
filter_by_period_skipping(data, period, years) ==
    [item_name \in {n \in DOMAIN data : ~Falsy(data[n])} |->
        FilterItem(item_name, data[item_name], period, years)]

filter_by_period(data, period, years) ==
    [item_name \in DOMAIN data |-> FilterItem(item_name, data[item_name], period, years)]

\* the body shared by get_income_statement, get_balance_sheet and
\* get_cash_flow_statement (company_name and cik pass through and are left out)
Statement(facts, items, statement_type, period, years) ==
    [statement_type |-> statement_type,
     period |-> period,
     data |-> filter_by_period(
         [item_name \in DOMAIN items |-> extract_concept(facts, items[item_name])],
         period, years)]

\* A concept entry that is JSON text where a mapping is expected.
JsonStr(text) == [json_str |-> text]
IsMapping(v) == "json_str" \notin DOMAIN v

\* list.sort compares the keys of a list of two or more elements, and no key
\* that is None compares with another key: TypeError
SortRaises(filtered_values) ==
    /\ Len(filtered_values) >= 2
    /\ \E i \in 1..Len(filtered_values) : EndKey(filtered_values[i]) = NoneStr

\* the iteration of the loop of _filter_by_period on this item raises:
\* item_data.get of a value that has no get (AttributeError), or the sort
ItemRaises(item_data, period) ==
    /\ ~Falsy(item_data)
    /\ \/ ~IsMapping(item_data)
       \/ LET usd_data == SelectUnitData(Get(item_data, "units", EmptyDict))
          IN  usd_data # <<>> /\ SortRaises(FilterByForm(usd_data, period))

\* nothing in the loop catches: the first item that raises ends _filter_by_period
FilterRaises(facts, items, period) ==
    \E item_name \in DOMAIN items : ItemRaises(extract_concept(facts, items[item_name]), period)

\* what the caller of a call that raised gets: the exception
Raised(message) == [error |-> message]
IsError(r) == "error" \in DOMAIN r

\* "try: ... except Exception as e: raise Exception(f"Error extracting ...")"
\* around the body of the three statement methods
TryStatement(facts, items, statement_type, period, years, message) ==
    IF FilterRaises(facts, items, period) THEN Raised(message)
    ELSE Statement(facts, items, statement_type, period, years)

\* ------------------------------------------------------------------ numbers

\* A Python float is modelled by the rational number it stands for, kept in
\* lowest terms with a positive denominator; float('inf') and nan are values
\* of their own.
RECURSIVE GCD(_, _)
GCD(a, b) == IF b = 0 THEN a ELSE GCD(b, a % b)

Abs(x) == IF x < 0 THEN -x ELSE x

Rat(n, d) ==
    LET g == GCD(Abs(n), Abs(d))
        s == IF d < 0 THEN -1 ELSE 1
    IN  [n |-> (s * n) \div g, d |-> (s * d) \div g]

Zero == Rat(0, 1)
One == Rat(1, 1)
Whole(i) == Rat(i, 1)
Percent(i) == Rat(i, 100)
Inf == [inf |-> TRUE]
NaN == [nan |-> TRUE]
IsRat(x) == DOMAIN x = {"n", "d"}

RNeg(a) == [n |-> -a.n, d |-> a.d]
RAdd(a, b) ==
    LET l == (a.d \div GCD(a.d, b.d)) * b.d
    IN  Rat(a.n * (l \div a.d) + b.n * (l \div b.d), l)
RSub(a, b) == RAdd(a, RNeg(b))
RMul(a, b) ==
    LET g1 == GCD(Abs(a.n), b.d)
        g2 == GCD(Abs(b.n), a.d)
    IN  Rat((a.n \div g1) * (b.n \div g2), (a.d \div g2) * (b.d \div g1))
\* a / b for b # 0
RDiv(a, b) == RMul(a, Rat(b.d, b.n))
RLess(a, b) == a.n * b.d < b.n * a.d
RLeq(a, b) == a.n * b.d <= b.n * a.d

\* ------------------------------------------------------------------ FinancialMetrics

\* as calculate_ev_to_ebitda, but only an EBITDA of 0 gives the sentinel
ev_to_ebitda_nonzero(enterprise_value, ebitda) ==
    IF ebitda # Zero THEN RDiv(enterprise_value, ebitda) ELSE Inf

calculate_ev_to_ebitda(enterprise_value, ebitda) ==
    IF RLess(Zero, ebitda) THEN RDiv(enterprise_value, ebitda) ELSE Inf

calculate_peg_ratio(pe_ratio, growth_rate) ==
    IF RLess(Zero, growth_rate) THEN RDiv(pe_ratio, growth_rate) ELSE Inf

\* the thresholds of the Z-score
SafeAbove == Rat(299, 100)
GreyAbove == Rat(181, 100)

\* as Classify, with the thresholds taken inclusively
ClassifyInclusive(z_score) ==
    IF RLeq(SafeAbove, z_score) THEN "Safe Zone - Low bankruptcy risk"
    ELSE IF RLeq(GreyAbove, z_score) THEN "Grey Zone - Moderate bankruptcy risk"
    ELSE "Distress Zone - High bankruptcy risk"

Classify(z_score) ==
    IF RLess(SafeAbove, z_score) THEN "Safe Zone - Low bankruptcy risk"
    ELSE IF RLess(GreyAbove, z_score) THEN "Grey Zone - Moderate bankruptcy risk"
    ELSE "Distress Zone - High bankruptcy risk"

\* the pair returned is the record of its components z_score and interpretation
calculate_altman_z_score(working_capital, total_assets, retained_earnings, ebit, market_value_equity, total_liabilities, sales) ==
    IF total_assets = Zero
    THEN [z_score |-> Zero, interpretation |-> "Cannot calculate - Invalid data"]
    ELSE LET A == RDiv(working_capital, total_assets)
             B == RDiv(retained_earnings, total_assets)
             C == RDiv(ebit, total_assets)
             D == IF RLess(Zero, total_liabilities)
                  THEN RDiv(market_value_equity, total_liabilities) ELSE Zero
             E == RDiv(sales, total_assets)
             z_score == RAdd(RAdd(RAdd(RAdd(RMul(Rat(12, 10), A), RMul(Rat(14, 10), B)),
                                       RMul(Rat(33, 10), C)),
                                  RMul(Rat(6, 10), D)),
                             RMul(Rat(10, 10), E))
         IN  [z_score |-> z_score, interpretation |-> Classify(z_score)]

\* as Points, but a criterion that holds adds two points
PointsDoubled(criterion) == IF criterion THEN 2 ELSE 0

\* "score += 1" in the branch of a criterion that holds
Points(criterion) == IF criterion THEN 1 ELSE 0

\* the criteria dict built by the nine if/else blocks; financials.get(key, 0)
\* is Get(financials, key, 0)
Criteria(financials) ==
    [positive_roa |-> Get(financials, "roa", 0) > 0,
     positive_ocf |-> Get(financials, "operating_cash_flow", 0) > 0,
     increasing_roa |-> Get(financials, "roa_change", 0) > 0,
     quality_earnings |->
         Get(financials, "operating_cash_flow", 0) > Get(financials, "net_income", 0),
     decreasing_leverage |-> Get(financials, "leverage_change", 0) < 0,
     increasing_liquidity |-> Get(financials, "current_ratio_change", 0) > 0,
     no_dilution |-> Get(financials, "shares_change", 0) <= 0,
     increasing_margin |-> Get(financials, "gross_margin_change", 0) > 0,
     increasing_efficiency |-> Get(financials, "asset_turnover_change", 0) > 0]

\* the pair returned is the record of its components score and criteria;
\* score is incremented in the branch that records True
calculate_piotroski_f_score(financials) ==
    LET criteria == Criteria(financials)
        score == 0 + Points(criteria.positive_roa)
                   + Points(criteria.positive_ocf)
                   + Points(criteria.increasing_roa)
                   + Points(criteria.quality_earnings)
                   + Points(criteria.decreasing_leverage)
                   + Points(criteria.increasing_liquidity)
                   + Points(criteria.no_dilution)
                   + Points(criteria.increasing_margin)
                   + Points(criteria.increasing_efficiency)
    IN  [score |-> score, criteria |-> criteria]

\* ------------------------------------------------------------------ DCFModel

\* as calculate_wacc, with the tax shield of debt forgotten
wacc_without_tax_shield(market_cap, total_debt, cost_of_equity, cost_of_debt, tax_rate) ==
    LET total_value == RAdd(market_cap, total_debt)
    IN  IF total_value = Zero THEN Rat(10, 100)
        ELSE RAdd(RMul(RDiv(market_cap, total_value), cost_of_equity),
                  RMul(RDiv(total_debt, total_value), cost_of_debt))

calculate_wacc(market_cap, total_debt, cost_of_equity, cost_of_debt, tax_rate) ==
    LET total_value == RAdd(market_cap, total_debt)
    IN  IF total_value = Zero THEN Rat(10, 100)
        ELSE LET equity_weight == RDiv(market_cap, total_value)
                 debt_weight == RDiv(total_debt, total_value)
             IN  RAdd(RMul(equity_weight, cost_of_equity),
                      RMul(RMul(debt_weight, cost_of_debt), RSub(One, tax_rate)))

calculate_terminal_value(final_fcf, terminal_growth, wacc) ==
    IF RLeq(wacc, terminal_growth) THEN Zero
    ELSE RDiv(RMul(final_fcf, RAdd(One, terminal_growth)), RSub(wacc, terminal_growth))

\* a ** k for an integer k >= 0
RECURSIVE RPow(_, _)
RPow(a, k) == IF k = 0 THEN One ELSE RMul(a, RPow(a, k - 1))

\* sum(fcf / (1 + wacc) ** (i + 1) for i, fcf in enumerate(fcf_projections))
RECURSIVE PresentValues(_, _, _)
PresentValues(fcf_projections, wacc, i) ==
    IF i > Len(fcf_projections) THEN Zero
    ELSE RAdd(RDiv(fcf_projections[i], RPow(RAdd(One, wacc), i)),
              PresentValues(fcf_projections, wacc, i + 1))

\* calculate_dcf_value raises where Python does: a float division by
\* (1 + wacc) ** k = 0 (ZeroDivisionError), fcf_projections[-1] of an empty
\* list (IndexError)
calculate_dcf_value(fcf_projections, terminal_growth, wacc, net_debt, shares_outstanding) ==
    IF fcf_projections = <<>> THEN Raised("IndexError")
    ELSE IF RAdd(One, wacc) = Zero THEN Raised("ZeroDivisionError")
    ELSE LET pv_fcfs == PresentValues(fcf_projections, wacc, 1)
             terminal_fcf == fcf_projections[Len(fcf_projections)]
             terminal_value == calculate_terminal_value(terminal_fcf, terminal_growth, wacc)
             pv_terminal == RDiv(terminal_value, RPow(RAdd(One, wacc), Len(fcf_projections)))
             enterprise_value == RAdd(pv_fcfs, pv_terminal)
             equity_value == RSub(enterprise_value, net_debt)
             intrinsic_value_per_share ==
                 IF RLess(Zero, shares_outstanding)
                 THEN RDiv(equity_value, shares_outstanding) ELSE Zero
         IN  [intrinsic_value_per_share |-> intrinsic_value_per_share,
              enterprise_value |-> enterprise_value,
              equity_value |-> equity_value,
              pv_fcfs |-> pv_fcfs,
              pv_terminal |-> pv_terminal]

\* ------------------------------------------------------------------ numpy

\* np.random is one generator for the whole process.  It is modelled as a
\* fixed cyclic stream of standard-normal variates and the position in it:
\* a draw returns the variate at the position and moves on, and
\* np.random.seed(s) sets a position that s determines.
StdNormal == <<Whole(0), Whole(1), Whole(-1), Whole(2), Whole(-2)>>
Variate(pos) == StdNormal[(pos % Len(StdNormal)) + 1]
SeedPosition(s) == s % Len(StdNormal)

\* np.random.normal(loc, scale), drawn at position pos
Normal(loc, scale, pos) == RAdd(loc, RMul(scale, Variate(pos)))

\* np.random.normal(loc, scale, size) for size >= 0, drawn from position pos on
NormalArray(loc, scale, size, pos) == [i \in 1..size |-> Normal(loc, scale, pos + i - 1)]

\* the seed a run of the engine is given: the argument of np.random.seed when
\* it was called since the engine last ran
Unseeded == [seeded |-> FALSE]
SeededWith(s) == [seeded |-> TRUE, value |-> s]

\* ascending order of floats
RECURSIVE InsertAsc(_, _)
InsertAsc(sorted, x) ==
    IF sorted = <<>> THEN <<x>>
    ELSE IF RLess(x, Head(sorted)) THEN <<x>> \o sorted
    ELSE <<Head(sorted)>> \o InsertAsc(Tail(sorted), x)

RECURSIVE SortAsc(_)
SortAsc(a) == IF a = <<>> THEN <<>> ELSE InsertAsc(SortAsc(Tail(a)), Head(a))

\* the sum of a[lo..hi], by halves
RECURSIVE SumRange(_, _, _)
SumRange(a, lo, hi) ==
    IF lo > hi THEN Zero
    ELSE IF lo = hi THEN a[lo]
    ELSE LET mid == (lo + hi) \div 2
             left == SumRange(a, lo, mid)
             right == SumRange(a, mid + 1, hi)
         IN  RAdd(left, right)

Sum(a) == SumRange(a, 1, Len(a))

\* the statistics of an empty list are nan
Mean(a) == IF a = <<>> THEN NaN ELSE RDiv(Sum(a), Whole(Len(a)))

\* np.median: the middle of the sorted values, the mean of the two middle ones
Median(a) ==
    IF a = <<>> THEN NaN
    ELSE LET s == SortAsc(a)
             n == Len(a)
         IN  IF n % 2 = 1 THEN s[(n + 1) \div 2]
             ELSE RDiv(RAdd(s[n \div 2], s[n \div 2 + 1]), Whole(2))

\* np.std is the square root of the variance, which is no rational number: it
\* is kept as the function of the values that it is
Std(a) == IF a = <<>> THEN NaN ELSE [std_of |-> SortAsc(a)]

\* as Percentile, on the values in the order of the simulations
PercentileUnsorted(a, q) ==
    IF a = <<>> THEN NaN
    ELSE LET index == RMul(Rat(q, 100), Whole(Len(a) - 1))
             lo == index.n \div index.d
             frac == RSub(index, Whole(lo))
         IN  IF lo + 1 >= Len(a) THEN a[lo + 1]
             ELSE RAdd(a[lo + 1], RMul(frac, RSub(a[lo + 2], a[lo + 1])))

\* np.percentile(a, q): linear interpolation between the sorted values on
\* either side of the index q / 100 * (n - 1)
Percentile(a, q) ==
    IF a = <<>> THEN NaN
    ELSE LET s == SortAsc(a)
             index == RMul(Rat(q, 100), Whole(Len(a) - 1))
             lo == index.n \div index.d
             frac == RSub(index, Whole(lo))
         IN  IF lo + 1 >= Len(a) THEN s[lo + 1]
             ELSE RAdd(s[lo + 1], RMul(frac, RSub(s[lo + 2], s[lo + 1])))

\* ------------------------------------------------------------------ DCFModel.monte_carlo_dcf

\* the inner loop: the cash flows of one simulation, the noise of year k
\* drawn at position pos + k - 1
RECURSIVE ProjectFcfs(_, _, _, _)
ProjectFcfs(current_fcf, growth_rate, num_years, pos) ==
    IF num_years <= 0 THEN <<>>
    ELSE LET growth == RAdd(growth_rate, Normal(Zero, Percent(1), pos))
             next_fcf == RMul(current_fcf, RAdd(One, growth))
         IN  <<next_fcf>> \o ProjectFcfs(next_fcf, growth_rate, num_years - 1, pos + 1)

\* the draws one call makes
Draws(num_years, simulations) ==
    IF simulations < 0 THEN 0
    ELSE 3 * simulations + simulations * (IF num_years > 0 THEN num_years ELSE 0)

\* monte_carlo_dcf with the generator at position pos.  A negative size is
\* refused by np.random.normal (ValueError); an exception of
\* calculate_dcf_value is not caught.
monte_carlo_dcf(base_fcf, num_years, simulations, pos) ==
    IF simulations < 0 THEN Raised("ValueError")
    ELSE LET growth_rates == NormalArray(Percent(5), Percent(2), simulations, pos)
             terminal_growths == NormalArray(Rat(25, 1000), Percent(1), simulations,
                                             pos + simulations)
             waccs == NormalArray(Percent(10), Percent(2), simulations, pos + 2 * simulations)
             years == IF num_years > 0 THEN num_years ELSE 0
             dcf_result(i) ==
                 calculate_dcf_value(
                     ProjectFcfs(base_fcf, growth_rates[i], num_years,
                                 pos + 3 * simulations + (i - 1) * years),
                     terminal_growths[i], waccs[i], Zero, One)
             failed == {i \in 1..simulations : IsError(dcf_result(i))}
             results == [i \in 1..simulations |-> dcf_result(i).intrinsic_value_per_share]
         IN  IF failed # {} THEN dcf_result(CHOOSE i \in failed : \A j \in failed : i <= j)
             ELSE [mean_value |-> Mean(results),
                   median_value |-> Median(results),
                   std_dev |-> Std(results),
                   percentile_5 |-> Percentile(results, 5),
                   percentile_95 |-> Percentile(results, 95),
                   confidence_interval |-> <<Percentile(results, 5), Percentile(results, 95)>>]

\* ------------------------------------------------------------------ monte_carlo_dcf, statement by statement

\* The threads of the process that call monte_carlo_dcf.  A thread's frame
\* holds the arguments and locals of its call and the statement it is at:
\*   "idle"              no call yet
\*   "growth_rates"      before line 218
\*   "terminal_growths"  before line 219
\*   "waccs"             before line 220
\*   "loop"              at the head of the loop of line 222
\*   "done"              returned or raised, ret is what the caller got
\* start is the position of the generator when the call was entered.
Callers == {"thread_1", "thread_2"}

IdleFrame == [pc |-> "idle", base_fcf |-> Zero, num_years |-> 0, simulations |-> 0, start |-> 0, growth_rates |-> <<>>, terminal_growths |-> <<>>, waccs |-> <<>>, results |-> <<>>, ret |-> None]
NoFrames == [t \in Callers |-> IdleFrame]

\* the dict of lines 237-244
Statistics(results) ==
    [mean_value |-> Mean(results),
     median_value |-> Median(results),
     std_dev |-> Std(results),
     percentile_5 |-> Percentile(results, 5),
     percentile_95 |-> Percentile(results, 95),
     confidence_interval |-> <<Percentile(results, 5), Percentile(results, 95)>>]

\* lines 223-234 for simulation i of frame f, the generator at position pos
Scenario(f, i, pos) ==
    calculate_dcf_value(ProjectFcfs(f.base_fcf, f.growth_rates[i], f.num_years, pos),
                        f.terminal_growths[i], f.waccs[i], Zero, One)

\* ------------------------------------------------------------------ ComparativeAnalysis

\* keys of a metrics dict that name the company, not a metric (line 257)
Labels == {"ticker", "company_name"}

\* statistics.variance: the sample variance, for two or more values
Variance(a) ==
    LET m == Mean(a)
        squares == [i \in 1..Len(a) |-> RMul(RSub(a[i], m), RSub(a[i], m))]
    IN  RDiv(Sum(squares), Whole(Len(a) - 1))

\* x / sqrt(variance) for variance > 0.  The square root of a rational is no
\* rational in general: the quotient is kept as its two parts, and compared
\* with whole numbers through its square.
OverRoot(x, variance) == IF x = Zero THEN Zero ELSE [over_root |-> TRUE, x |-> x, variance |-> variance]

\* z > k, for a float or a quotient z and a whole number k
Exceeds(z, k) ==
    IF IsRat(z) THEN RLess(Whole(k), z)
    ELSE LET square == RMul(z.x, z.x)
             bound == RMul(Whole(k * k), z.variance)
         IN  IF k >= 0 THEN RLess(Zero, z.x) /\ RLess(bound, square)
             ELSE RLess(Zero, z.x) \/ RLess(square, bound)

interpret_z_score(z_score) ==
    IF Exceeds(z_score, 2) THEN "Significantly above peers"
    ELSE IF Exceeds(z_score, 1) THEN "Above peers"
    ELSE IF Exceeds(z_score, -1) THEN "In line with peers"
    ELSE IF Exceeds(z_score, -2) THEN "Below peers"
    ELSE "Significantly below peers"

\* the peers that carry the metric, in their order
RECURSIVE PeerValues(_, _)
PeerValues(peer_metrics, metric) ==
    IF peer_metrics = <<>> THEN <<>>
    ELSE LET p == Head(peer_metrics)
         IN  (IF metric \in DOMAIN p THEN <<Get(p, metric, Zero)>> ELSE <<>>) \o PeerValues(Tail(peer_metrics), metric)

\* as BelowCount, a peer equal to the company counted too
BelowOrEqualCount(peer_values, company_value) ==
    Cardinality({i \in 1..Len(peer_values) : RLeq(peer_values[i], company_value)})

\* line 267
BelowCount(peer_values, company_value) ==
    Cardinality({i \in 1..Len(peer_values) : RLess(peer_values[i], company_value)})

\* lines 264-282 for one metric that some peer carries
RelativeMetric(company_value, peer_values) ==
    LET below_count == BelowCount(peer_values, company_value)
        percentile == RMul(Rat(below_count, Len(peer_values)), Whole(100))
        mean_val == Mean(peer_values)
        has_std == Len(peer_values) > 1 /\ RLess(Zero, Variance(peer_values))
        z_score == IF has_std THEN OverRoot(RSub(company_value, mean_val), Variance(peer_values)) ELSE Zero
    IN  [company_value |-> company_value,
         peer_mean |-> mean_val,
         peer_median |-> Median(peer_values),
         percentile_rank |-> percentile,
         z_score |-> z_score,
         interpretation |-> interpret_z_score(z_score)]

\* the dict of results, as the value of the key "results" of a record
calculate_relative_metrics(company_metrics, peer_metrics) ==
    LET reported == {metric \in DOMAIN company_metrics \ Labels : PeerValues(peer_metrics, metric) # <<>>}
    IN  [results |-> [metric \in reported |-> RelativeMetric(company_metrics[metric], PeerValues(peer_metrics, metric))]]

\* ------------------------------------------------------------------ TechnicalIndicators

\* lst[k:], for every integer k
SliceFrom(lst, k) ==
    IF k >= 0
    THEN SubSeq(lst, k + 1, Len(lst))
    ELSE SubSeq(lst, (IF Len(lst) + k > 0 THEN Len(lst) + k ELSE 0) + 1, Len(lst))

\* lines 362-369: the gain and the loss of each price change
Gains(prices) == [i \in 1..(Len(prices) - 1) |-> IF RLess(prices[i], prices[i + 1]) THEN RSub(prices[i + 1], prices[i]) ELSE Zero]
Losses(prices) == [i \in 1..(Len(prices) - 1) |-> IF RLess(prices[i], prices[i + 1]) THEN Zero ELSE RSub(prices[i], prices[i + 1])]

\* lines 376-380
Rsi(avg_gain, avg_loss) ==
    IF avg_loss = Zero THEN Whole(100)
    ELSE RSub(Whole(100), RDiv(Whole(100), RAdd(One, RDiv(avg_gain, avg_loss))))

\* lines 385-386
Smooth(avg, new, period) == RDiv(RAdd(RMul(avg, Whole(period - 1)), new), Whole(period))

\* lines 375-386 from index i (counted from 1) of gains on
RECURSIVE RsiLoop(_, _, _, _, _, _)
RsiLoop(gains, losses, period, i, avg_gain, avg_loss) ==
    IF i > Len(gains) THEN <<>>
    ELSE <<Rsi(avg_gain, avg_loss)>> \o RsiLoop(gains, losses, period, i + 1, Smooth(avg_gain, gains[i], period), Smooth(avg_loss, losses[i], period))

\* lines 359-388 for period >= 0; the division by a period of 0 raises
RsiValues(prices, period) ==
    LET gains == Gains(prices)
        losses == Losses(prices)
    IN  IF period = 0 THEN Raised("ZeroDivisionError")
        ELSE [rsi_values |-> RsiLoop(gains, losses, period, period + 1, RDiv(Sum(SliceTo(gains, period)), Whole(period)), RDiv(Sum(SliceTo(losses, period)), Whole(period)))]

\* as calculate_rsi, without the early return of lines 356-357
rsi_unguarded(prices, period) == RsiValues(prices, period)

\* the list returned, as the value of the key "rsi_values" of a record
calculate_rsi(prices, period) ==
    IF Len(prices) < period + 1 THEN [rsi_values |-> <<>>]
    ELSE RsiValues(prices, period)

\* lines 425-426 over the prices left, last being ema[-1]
RECURSIVE EmaLoop(_, _, _)
EmaLoop(rest, multiplier, last) ==
    IF rest = <<>> THEN <<>>
    ELSE LET next == RAdd(RMul(RSub(Head(rest), last), multiplier), last)
         IN  <<next>> \o EmaLoop(Tail(rest), multiplier, next)

\* _calculate_ema for period >= 1
calculate_ema(prices, period) ==
    IF Len(prices) < period THEN <<>>
    ELSE LET multiplier == Rat(2, period + 1)
             first == RDiv(Sum(SliceTo(prices, period)), Whole(period))
         IN  <<first>> \o EmaLoop(SliceFrom(prices, period), multiplier, first)

\* [x - y for x, y in zip(a, b)]
ZipMinus(a, b) == [i \in 1..(IF Len(a) < Len(b) THEN Len(a) ELSE Len(b)) |-> RSub(a[i], b[i])]

\* as MacdLine, the two averages paired from their first elements
MacdLineUnaligned(ema_fast, ema_slow, fast, slow) == ZipMinus(ema_fast, ema_slow)

\* line 402
MacdLine(ema_fast, ema_slow, fast, slow) == ZipMinus(SliceFrom(ema_fast, slow - fast), ema_slow)

\* calculate_macd for fast, slow, signal >= 1
calculate_macd(prices, fast, slow, signal) ==
    IF Len(prices) < slow THEN [macd |-> <<>>, signal |-> <<>>, histogram |-> <<>>]
    ELSE LET ema_fast == calculate_ema(prices, fast)
             ema_slow == calculate_ema(prices, slow)
             macd_line == MacdLine(ema_fast, ema_slow, fast, slow)
             signal_line == calculate_ema(macd_line, signal)
             histogram == ZipMinus(SliceFrom(macd_line, signal - 1), signal_line)
         IN  [macd |-> macd_line, signal |-> signal_line, histogram |-> histogram]

\* ------------------------------------------------------------------ MarketRegimeDetection

\* the observations of the trailing window (lines 460-471)
TrailingWindow == 20

\* float arithmetic and comparisons where an operand may be nan: nan
\* propagates, and every comparison with nan is false
FMul(a, b) == IF IsRat(a) /\ IsRat(b) THEN RMul(a, b) ELSE NaN
FSub(a, b) == IF IsRat(a) /\ IsRat(b) THEN RSub(a, b) ELSE NaN
FDiv(a, b) == IF IsRat(a) /\ IsRat(b) THEN RDiv(a, b) ELSE NaN
FAbs(a) == IF IsRat(a) THEN Rat(Abs(a.n), a.d) ELSE NaN
FLess(a, b) == IsRat(a) /\ IsRat(b) /\ RLess(a, b)

\* min(max(confidence, 0), 1)
Clamp(confidence) ==
    IF RLess(confidence, Zero) THEN Zero
    ELSE IF RLess(One, confidence) THEN One
    ELSE confidence

\* lines 474-491
BaseRegime(recent_return, hist_return, recent_vol, hist_vol) ==
    IF FLess(FMul(hist_return, Rat(12, 10)), recent_return) /\ FLess(recent_vol, FMul(hist_vol, Rat(12, 10)))
    THEN [regime |-> "Bull Market - Low Volatility", confidence |-> Rat(8, 10)]
    ELSE IF FLess(hist_return, recent_return) /\ FLess(hist_vol, recent_vol)
    THEN [regime |-> "Bull Market - High Volatility", confidence |-> Rat(7, 10)]
    ELSE IF FLess(recent_return, FMul(hist_return, Rat(8, 10))) /\ FLess(FMul(hist_vol, Rat(12, 10)), recent_vol)
    THEN [regime |-> "Bear Market - High Volatility", confidence |-> Rat(8, 10)]
    ELSE IF FLess(recent_return, hist_return) /\ FLess(recent_vol, hist_vol)
    THEN [regime |-> "Bear Market - Low Volatility", confidence |-> Rat(7, 10)]
    ELSE IF FLess(FAbs(recent_return), Rat(2, 100)) /\ FLess(recent_vol, hist_vol)
    THEN [regime |-> "Consolidation - Low Volatility", confidence |-> Rat(6, 10)]
    ELSE [regime |-> "Transition - Mixed Signals", confidence |-> Rat(5, 10)]

\* lines 494-499
VolumeConfirmation(base, recent_volume, hist_volume) ==
    IF FLess(FMul(hist_volume, Rat(13, 10)), recent_volume)
    THEN [regime |-> base.regime \o " (High Volume)", confidence |-> RAdd(base.confidence, Rat(1, 10))]
    ELSE IF FLess(recent_volume, FMul(hist_volume, Rat(7, 10)))
    THEN [regime |-> base.regime \o " (Low Volume)", confidence |-> RSub(base.confidence, Rat(1, 10))]
    ELSE base

\* (recent - hist) / divisor if hist != 0 else 0 (lines 505-507); nan != 0
Change(recent, hist, divisor) == IF hist = Zero THEN Zero ELSE FDiv(FSub(recent, hist), divisor)

\* as Insufficient, a series that just fills the window refused too
InsufficientInclusive(returns) == Len(returns) <= TrailingWindow

\* line 460
Insufficient(returns) == Len(returns) < TrailingWindow

detect_regime(returns, volume, volatility) ==
    IF Insufficient(returns) THEN [regime |-> "Insufficient data", confidence |-> Zero]
    ELSE LET recent_return == Mean(SliceFrom(returns, -TrailingWindow))
             recent_vol == Mean(SliceFrom(volatility, -TrailingWindow))
             recent_volume == Mean(SliceFrom(volume, -TrailingWindow))
             hist_return == Mean(SliceTo(returns, -TrailingWindow))
             hist_vol == Mean(SliceTo(volatility, -TrailingWindow))
             hist_volume == Mean(SliceTo(volume, -TrailingWindow))
             confirmed == VolumeConfirmation(BaseRegime(recent_return, hist_return, recent_vol, hist_vol), recent_volume, hist_volume)
         IN  [regime |-> confirmed.regime,
              confidence |-> Clamp(confirmed.confidence),
              metrics |-> [return_change |-> Change(recent_return, hist_return, FAbs(hist_return)),
                           volatility_change |-> Change(recent_vol, hist_vol, hist_vol),
                           volume_change |-> Change(recent_volume, hist_volume, hist_volume)]]

\* ------------------------------------------------------------------ EdgarMCPServer.get_edgar_client

\* The server runs its handlers as tasks of one event loop.  A task is
\* switched only where it suspends, and get_edgar_client never does: the
\* coroutine it awaits at line 24, EdgarClient.__aenter__, has no await of
\* its own (edgar_client.py lines 21-26), so it runs to its end within the
\* await.  One call of get_edgar_client is therefore one step.
\*
\* A reference to the k-th EdgarClient created is [ref |-> k]; the object is
\* clients[k], with its session (None until __aenter__ has set it) and the
\* number of times its __aenter__ was called.  tasks[t] lists what each call
\* of task t got, [returned |-> reference] or Raised(message).
Tasks == {"task_1", "task_2", "task_3"}
NoTasks == [t \in Tasks |-> <<>>]

Ref(k) == [ref |-> k]
ClientSession == [ClientSession |-> TRUE]

\* EdgarClient.__init__
NewClient == [session |-> None, aenter_calls |-> 0]

\* EdgarClient.__aenter__ on a client; created tells whether
\* aiohttp.ClientSession(...) returned a session or raised
Aenter(client, created) == [session |-> IF created THEN ClientSession ELSE client.session, aenter_calls |-> client.aenter_calls + 1]

\* as MustCreate, the cached client ignored
MustCreateAlways(cached) == TRUE

\* line 22
MustCreate(cached) == cached = None


\* ------------------------------------------------------------------ actions

\* The client keeps no state between calls (its only field is the EDGAR client
\* the facts come from), so a behaviour is one document and one call on it.
Periods == {"annual", "quarterly"}
Years == -1..MaxYears
Idle == call.op = "none"

ExtractConcept(concept_names) ==
    /\ Idle
    /\ call' = [op |-> "_extract_concept", concept_names |-> concept_names]
    /\ ret' = extract_concept(us_gaap, concept_names)
    /\ UNCHANGED <<us_gaap, rng, runs, frames, edgar_client, clients, tasks>>

get_income_statement(period, years) ==
    /\ Idle
    /\ call' = [op |-> "get_income_statement", period |-> period, years |-> years]
    /\ ret' = TryStatement(us_gaap, IncomeItems, "income_statement", period, years,
                         "Error extracting income statement")
    /\ UNCHANGED <<us_gaap, rng, runs, frames, edgar_client, clients, tasks>>

get_balance_sheet(period, years) ==
    /\ Idle
    /\ call' = [op |-> "get_balance_sheet", period |-> period, years |-> years]
    /\ ret' = TryStatement(us_gaap, BalanceItems, "balance_sheet", period, years,
                         "Error extracting balance sheet")
    /\ UNCHANGED <<us_gaap, rng, runs, frames, edgar_client, clients, tasks>>

get_cash_flow_statement(period, years) ==
    /\ Idle
    /\ call' = [op |-> "get_cash_flow_statement", period |-> period, years |-> years]
    /\ ret' = TryStatement(us_gaap, CashFlowItems, "cash_flow_statement", period, years,
                         "Error extracting cash flow statement")
    /\ UNCHANGED <<us_gaap, rng, runs, frames, edgar_client, clients, tasks>>


\* ------------------------------------------------------------------ calls of the analysis functions

\* The functions of FinancialMetrics and DCFModel are pure: a behaviour is
\* one call, with us_gaap left at the empty document.
CalcEvToEbitda(enterprise_value, ebitda) ==
    /\ Idle
    /\ call' = [op |-> "calculate_ev_to_ebitda",
                enterprise_value |-> enterprise_value, ebitda |-> ebitda]
    /\ ret' = calculate_ev_to_ebitda(enterprise_value, ebitda)
    /\ UNCHANGED <<us_gaap, rng, runs, frames, edgar_client, clients, tasks>>

CalcPegRatio(pe_ratio, growth_rate) ==
    /\ Idle
    /\ call' = [op |-> "calculate_peg_ratio", pe_ratio |-> pe_ratio, growth_rate |-> growth_rate]
    /\ ret' = calculate_peg_ratio(pe_ratio, growth_rate)
    /\ UNCHANGED <<us_gaap, rng, runs, frames, edgar_client, clients, tasks>>

CalcAltmanZScore(working_capital, total_assets, retained_earnings, ebit, market_value_equity, total_liabilities, sales) ==
    /\ Idle
    /\ call' = [op |-> "calculate_altman_z_score", working_capital |-> working_capital,
                total_assets |-> total_assets, retained_earnings |-> retained_earnings,
                ebit |-> ebit, market_value_equity |-> market_value_equity,
                total_liabilities |-> total_liabilities, sales |-> sales]
    /\ ret' = calculate_altman_z_score(working_capital, total_assets, retained_earnings, ebit,
                                       market_value_equity, total_liabilities, sales)
    /\ UNCHANGED <<us_gaap, rng, runs, frames, edgar_client, clients, tasks>>

CalcPiotroskiFScore(financials) ==
    /\ Idle
    /\ call' = [op |-> "calculate_piotroski_f_score", financials |-> financials]
    /\ ret' = calculate_piotroski_f_score(financials)
    /\ UNCHANGED <<us_gaap, rng, runs, frames, edgar_client, clients, tasks>>

CalcWacc(market_cap, total_debt, cost_of_equity, cost_of_debt, tax_rate) ==
    /\ Idle
    /\ call' = [op |-> "calculate_wacc", market_cap |-> market_cap, total_debt |-> total_debt,
                cost_of_equity |-> cost_of_equity, cost_of_debt |-> cost_of_debt,
                tax_rate |-> tax_rate]
    /\ ret' = calculate_wacc(market_cap, total_debt, cost_of_equity, cost_of_debt, tax_rate)
    /\ UNCHANGED <<us_gaap, rng, runs, frames, edgar_client, clients, tasks>>

CalcTerminalValue(final_fcf, terminal_growth, wacc) ==
    /\ Idle
    /\ call' = [op |-> "calculate_terminal_value", final_fcf |-> final_fcf,
                terminal_growth |-> terminal_growth, wacc |-> wacc]
    /\ ret' = calculate_terminal_value(final_fcf, terminal_growth, wacc)
    /\ UNCHANGED <<us_gaap, rng, runs, frames, edgar_client, clients, tasks>>

CalcDcfValue(fcf_projections, terminal_growth, wacc, net_debt, shares_outstanding) ==
    /\ Idle
    /\ call' = [op |-> "calculate_dcf_value", fcf_projections |-> fcf_projections,
                terminal_growth |-> terminal_growth, wacc |-> wacc,
                net_debt |-> net_debt, shares_outstanding |-> shares_outstanding]
    /\ ret' = calculate_dcf_value(fcf_projections, terminal_growth, wacc, net_debt,
                                  shares_outstanding)
    /\ UNCHANGED <<us_gaap, rng, runs, frames, edgar_client, clients, tasks>>

\* ------------------------------------------------------------------ runs of the Monte Carlo engine

\* np.random.seed(s), called by whoever wants a run to be reproducible
Seed(s) ==
    /\ rng' = [seed |-> SeededWith(s), pos |-> SeedPosition(s)]
    /\ UNCHANGED <<us_gaap, call, ret, runs, frames, edgar_client, clients, tasks>>

\* a draw from np.random made elsewhere in the process
OtherDraw ==
    /\ rng' = [rng EXCEPT !.pos = (@ + 1) % Len(StdNormal)]
    /\ UNCHANGED <<us_gaap, call, ret, runs, frames, edgar_client, clients, tasks>>

\* one call of monte_carlo_dcf; runs keeps the first two calls of a
\* behaviour, with the seed each was given
MonteCarloDcf(base_fcf, num_years, simulations) ==
    LET result == monte_carlo_dcf(base_fcf, num_years, simulations, rng.pos)
    IN  /\ Len(runs) < 2
        /\ call' = [op |-> "monte_carlo_dcf", base_fcf |-> base_fcf, num_years |-> num_years,
                    simulations |-> simulations]
        /\ ret' = result
        /\ rng' = [seed |-> Unseeded,
                   pos |-> (rng.pos + Draws(num_years, simulations)) % Len(StdNormal)]
        /\ runs' = Append(runs, [seed |-> rng.seed, base_fcf |-> base_fcf,
                                 num_years |-> num_years, simulations |-> simulations,
                                 result |-> result])
        /\ UNCHANGED <<us_gaap, frames, edgar_client, clients, tasks>>

\* ------------------------------------------------------------------ monte_carlo_dcf in threads

\* The steps of one call in thread t.  Each call of np.random.normal is one
\* step (the generator serialises its callers); threads may be switched
\* between any two of them.
Advance(n) == [rng EXCEPT !.pos = (@ + n) % Len(StdNormal)]

McEnter(t, base_fcf, num_years, simulations) ==
    /\ frames[t].pc = "idle"
    /\ frames' = [frames EXCEPT ![t] = [IdleFrame EXCEPT !.pc = "growth_rates", !.base_fcf = base_fcf, !.num_years = num_years, !.simulations = simulations, !.start = rng.pos]]
    /\ UNCHANGED <<us_gaap, call, ret, rng, runs, edgar_client, clients, tasks>>

\* line 218; a negative size is refused with ValueError
McGrowthRates(t) ==
    LET f == frames[t]
    IN  /\ f.pc = "growth_rates"
        /\ IF f.simulations < 0
              THEN /\ frames' = [frames EXCEPT ![t].pc = "done", ![t].ret = Raised("ValueError")]
                   /\ rng' = rng
              ELSE /\ frames' = [frames EXCEPT ![t].pc = "terminal_growths", ![t].growth_rates = NormalArray(Percent(5), Percent(2), f.simulations, rng.pos)]
                   /\ rng' = Advance(f.simulations)
        /\ UNCHANGED <<us_gaap, call, ret, runs, edgar_client, clients, tasks>>

\* line 219
McTerminalGrowths(t) ==
    LET f == frames[t]
    IN  /\ f.pc = "terminal_growths"
        /\ frames' = [frames EXCEPT ![t].pc = "waccs", ![t].terminal_growths = NormalArray(Rat(25, 1000), Percent(1), f.simulations, rng.pos)]
        /\ rng' = Advance(f.simulations)
        /\ UNCHANGED <<us_gaap, call, ret, runs, edgar_client, clients, tasks>>

\* line 220
McWaccs(t) ==
    LET f == frames[t]
    IN  /\ f.pc = "waccs"
        /\ frames' = [frames EXCEPT ![t].pc = "loop", ![t].waccs = NormalArray(Percent(10), Percent(2), f.simulations, rng.pos)]
        /\ rng' = Advance(f.simulations)
        /\ UNCHANGED <<us_gaap, call, ret, runs, edgar_client, clients, tasks>>

\* lines 222-235: one pass of the loop, for simulation Len(results) + 1.  Its
\* noise is drawn from the generator where the generator stands now.  An
\* exception of calculate_dcf_value ends the call.
McScenario(t) ==
    LET f == frames[t]
        i == Len(f.results) + 1
        years == IF f.num_years > 0 THEN f.num_years ELSE 0
        dcf_result == Scenario(f, i, rng.pos)
    IN  /\ f.pc = "loop"
        /\ i <= f.simulations
        /\ IF IsError(dcf_result)
              THEN frames' = [frames EXCEPT ![t].pc = "done", ![t].ret = dcf_result]
              ELSE frames' = [frames EXCEPT ![t].results = Append(@, dcf_result.intrinsic_value_per_share)]
        /\ rng' = Advance(years)
        /\ UNCHANGED <<us_gaap, call, ret, runs, edgar_client, clients, tasks>>

\* lines 237-244
McReturn(t) ==
    LET f == frames[t]
    IN  /\ f.pc = "loop"
        /\ Len(f.results) >= f.simulations
        /\ frames' = [frames EXCEPT ![t].pc = "done", ![t].ret = Statistics(f.results)]
        /\ UNCHANGED <<us_gaap, call, ret, rng, runs, edgar_client, clients, tasks>>

\* ------------------------------------------------------------------ calls of the comparative and technical analysis

CalcRelativeMetrics(company_metrics, peer_metrics) ==
    /\ Idle
    /\ call' = [op |-> "calculate_relative_metrics", company_metrics |-> company_metrics, peer_metrics |-> peer_metrics]
    /\ ret' = calculate_relative_metrics(company_metrics, peer_metrics)
    /\ UNCHANGED <<us_gaap, rng, runs, frames, edgar_client, clients, tasks>>

CalcRsi(prices, period) ==
    /\ Idle
    /\ call' = [op |-> "calculate_rsi", prices |-> prices, period |-> period]
    /\ ret' = calculate_rsi(prices, period)
    /\ UNCHANGED <<us_gaap, rng, runs, frames, edgar_client, clients, tasks>>

CalcMacd(prices, fast, slow, signal) ==
    /\ Idle
    /\ call' = [op |-> "calculate_macd", prices |-> prices, fast |-> fast, slow |-> slow, signal |-> signal]
    /\ ret' = calculate_macd(prices, fast, slow, signal)
    /\ UNCHANGED <<us_gaap, rng, runs, frames, edgar_client, clients, tasks>>

DetectRegime(returns, volume, volatility) ==
    /\ Idle
    /\ call' = [op |-> "detect_regime", returns |-> returns, volume |-> volume, volatility |-> volatility]
    /\ ret' = detect_regime(returns, volume, volatility)
    /\ UNCHANGED <<us_gaap, rng, runs, frames, edgar_client, clients, tasks>>

\* ------------------------------------------------------------------ EdgarMCPServer.get_edgar_client, called by tasks

\* one call of get_edgar_client by task t (lines 22-25).  When __aenter__
\* raises, the exception leaves get_edgar_client after line 23 has stored
\* the client.
GetEdgarClient(t, created) ==
    /\ Len(tasks[t]) < MaxCalls
    /\ IF MustCreate(edgar_client)
          THEN /\ clients' = Append(clients, Aenter(NewClient, created))
               /\ edgar_client' = Ref(Len(clients) + 1)
               /\ tasks' = [tasks EXCEPT ![t] = Append(@, IF created THEN [returned |-> Ref(Len(clients) + 1)] ELSE Raised("ClientSession"))]
          ELSE /\ tasks' = [tasks EXCEPT ![t] = Append(@, [returned |-> edgar_client])]
               /\ UNCHANGED <<edgar_client, clients>>
    /\ UNCHANGED <<us_gaap, call, ret, rng, runs, frames>>

\* ------------------------------------------------------------------ inputs

\* a raw observation of the companyfacts document
Obs(form, end, val, filed, accn) ==
    [form |-> form, end |-> end, val |-> val, filed |-> filed, accn |-> accn]

Duration(obs, start) ==
    [form |-> obs.form, end |-> obs.end, val |-> obs.val, filed |-> obs.filed,
     accn |-> obs.accn, start |-> start]

Annual2022 == Obs("10-K", "2022-12-31", "110", "2023-02-15", "0001-23-000010")
Quarter1 == Duration(Obs("10-Q", "2023-03-31", "25", "2023-05-01", "0001-23-000020"), "2023-01-01")

ObsPool ==
    {Obs("10-K", "2021-12-31", "100", "2022-02-15", "0001-22-000010"),
     Annual2022,
     Obs("10-K", "2023-12-31", "121", "2024-02-15", "0001-24-000010"),
     \* 2022 again, as the comparative column of the filing of 2024
     Obs("10-K", "2022-12-31", "112", "2024-02-15", "0001-24-000010"),
     \* a value that is no number
     Obs("10-K", "2020-12-31", "N/A", "2022-02-15", "0001-22-000010"),
     Obs("20-F", "2023-12-31", "90", "2024-03-01", "0002-24-000005"),
     Obs("40-F", "2021-12-31", "90", "2022-02-15", "0002-24-000005"),
     Quarter1,
     Duration(Obs("10-Q", "2023-06-30", "27", "2023-08-01", "0001-23-000030"), "2023-04-01"),
     Obs("8-K", "2023-09-30", "27", "2023-10-05", "0001-23-000040")}

\* the series of at most n distinct observations, in every order
SeriesUpTo(pool, n) ==
    UNION {{s \in [1..k -> pool] : \A i, j \in 1..k : i # j => s[i] # s[j]} : k \in 0..n}

Concept(description, units) == [description |-> description, units |-> units]
Unit(label, values) == [label |-> label, values |-> values]

\* documents with one concept, reported in USD, whose series varies
SeriesTag == "NetIncomeLoss"

InitSeries ==
    /\ \E s \in SeriesUpTo(ObsPool, MaxObs) :
           us_gaap = (SeriesTag :> Concept("Net income", <<Unit("USD", s)>>))
    /\ call = [op |-> "none"]
    /\ ret = None
    /\ rng = [seed |-> Unseeded, pos |-> 0]
    /\ runs = <<>>
    /\ frames = NoFrames
    /\ edgar_client = None
    /\ clients = <<>>
    /\ tasks = NoTasks

\* documents with one concept whose units vary
UnitLabelPool == {"USD", "EUR", "shares", "USD/shares", "iso4217:USD"}
UnitSeriesPool == {<<>>, <<Annual2022>>, <<Quarter1>>}

UnitsUpTo(n) ==
    UNION {{u \in [1..k -> {Unit(l, v) : l \in UnitLabelPool, v \in UnitSeriesPool}] :
               \A i, j \in 1..k : i # j => u[i].label # u[j].label} : k \in 0..n}

InitUnits ==
    /\ \E entry \in {Concept("Net income", u) : u \in UnitsUpTo(MaxUnits)}
                    \cup {EmptyDict, [description |-> "Net income"]}
                    \cup {[units |-> u] : u \in UnitsUpTo(1)} :
           us_gaap = (SeriesTag :> entry)
    /\ call = [op |-> "none"]
    /\ ret = None
    /\ rng = [seed |-> Unseeded, pos |-> 0]
    /\ runs = <<>>
    /\ frames = NoFrames
    /\ edgar_client = None
    /\ clients = <<>>
    /\ tasks = NoTasks

\* documents with several concepts
TagPool ==
    {"Revenues", "SalesRevenueNet", "NetIncomeLoss",
     "CashAndCashEquivalentsAtCarryingValue", "Cash", "LongTermDebt"}

\* the entries a tag may carry: the description names the tag, so that a
\* result shows which tag it was taken from
TagEntries(tag) ==
    {Concept(tag, <<Unit("USD", <<Annual2022, Quarter1>>)>>),
     Concept(tag, <<Unit("shares", <<Quarter1>>)>>)}

FactsUpTo(n) ==
    UNION {{f \in [present -> UNION {TagEntries(t) : t \in present}] :
               \A t \in present : f[t] \in TagEntries(t)} :
           present \in {p \in SUBSET TagPool : Cardinality(p) <= n}}

InitFacts ==
    /\ us_gaap \in FactsUpTo(MaxTags)
    /\ call = [op |-> "none"]
    /\ ret = None
    /\ rng = [seed |-> Unseeded, pos |-> 0]
    /\ runs = <<>>
    /\ frames = NoFrames
    /\ edgar_client = None
    /\ clients = <<>>
    /\ tasks = NoTasks

\* documents in which one concept is sound and another may be malformed: an
\* observation whose "end" is null, or an entry that is no mapping
NullEndAnnual == Obs("10-K", NoneStr, "100", "2022-02-15", "0001-22-000010")
NullEndQuarter == Obs("10-Q", NoneStr, "25", "2023-05-01", "0001-23-000020")
FaultyPool == {Annual2022, Quarter1, NullEndAnnual, NullEndQuarter}
FaultyTag == "Revenues"

InitFaulty ==
    /\ \E entry \in {Concept("Revenues", <<Unit("USD", s)>>) : s \in SeriesUpTo(FaultyPool, MaxObs)}
                    \cup {JsonStr("n/a")} :
           us_gaap = (SeriesTag :> Concept("Net income", <<Unit("USD", <<Annual2022, Quarter1>>)>>))
                     @@ (FaultyTag :> entry)
    /\ call = [op |-> "none"]
    /\ ret = None
    /\ rng = [seed |-> Unseeded, pos |-> 0]
    /\ runs = <<>>
    /\ frames = NoFrames
    /\ edgar_client = None
    /\ clients = <<>>
    /\ tasks = NoTasks

\* the arguments of the analysis functions
MaxProjections == 2     \* projected cash flows of one valuation

ValuePool == {Whole(-1200), Whole(0), Whole(1200), Whole(15)}
DivisorPool == {Whole(-300), Rat(-1, 2), Whole(0), Rat(1, 2), Whole(300)}

\* total_assets 100: the Z-score of sales alone is sales / 100
AltmanAssets == {Whole(0), Whole(100)}
AltmanSales == {Whole(0), Whole(181), Whole(182), Whole(299), Whole(300)}

PiotroskiKeys ==
    {"roa", "operating_cash_flow", "roa_change", "net_income", "leverage_change",
     "current_ratio_change", "shares_change", "gross_margin_change", "asset_turnover_change"}
\* for each input a value on the threshold 0 of its criterion and one beside it
PiotroskiValues(key) == IF key = "leverage_change" THEN {-1, 0} ELSE {0, 1}
Financials ==
    UNION {{f \in [present -> {-1, 0, 1}] : \A key \in present : f[key] \in PiotroskiValues(key)} :
           present \in SUBSET PiotroskiKeys}

Rates == {Whole(-1), Whole(0), Percent(3), Percent(5), Percent(10)}
\* rates whose powers stay small
DiscountRates == {Whole(-1), Whole(0), Percent(5), Percent(10)}
CashFlows == {Whole(100), Whole(110)}
Projections == UNION {[1..k -> CashFlows] : k \in 0..MaxProjections}

InitAnalysis ==
    /\ us_gaap = EmptyDict
    /\ call = [op |-> "none"]
    /\ ret = None
    /\ rng = [seed |-> Unseeded, pos |-> 0]
    /\ runs = <<>>
    /\ frames = NoFrames
    /\ edgar_client = None
    /\ clients = <<>>
    /\ tasks = NoTasks

\* (Idle is tested before the arguments are drawn)
NextAnalysis ==
    \/ Idle /\ \E enterprise_value \in ValuePool, ebitda \in DivisorPool :
                   CalcEvToEbitda(enterprise_value, ebitda)
    \/ Idle /\ \E pe_ratio \in ValuePool, growth_rate \in DivisorPool :
                   CalcPegRatio(pe_ratio, growth_rate)
    \/ Idle /\ \E working_capital \in {Whole(0), Whole(50)}, total_assets \in AltmanAssets,
                  retained_earnings \in {Whole(-20), Whole(0)}, ebit \in {Whole(0), Whole(10)},
                  market_value_equity \in {Whole(0), Whole(100)},
                  total_liabilities \in {Whole(-200), Whole(0), Whole(200)},
                  sales \in AltmanSales :
                   CalcAltmanZScore(working_capital, total_assets, retained_earnings, ebit,
                                    market_value_equity, total_liabilities, sales)
    \/ Idle /\ \E financials \in Financials : CalcPiotroskiFScore(financials)
    \/ Idle /\ \E market_cap \in {Whole(-200), Whole(0), Whole(800)},
                  total_debt \in {Whole(0), Whole(200)},
                  cost_of_equity \in {Percent(8), Percent(12)},
                  cost_of_debt \in {Percent(0), Percent(5)},
                  tax_rate \in {Percent(0), Percent(21)} :
                   CalcWacc(market_cap, total_debt, cost_of_equity, cost_of_debt, tax_rate)
    \/ Idle /\ \E final_fcf \in {Whole(-50), Whole(0), Whole(100)}, terminal_growth \in Rates,
                  wacc \in Rates :
                   CalcTerminalValue(final_fcf, terminal_growth, wacc)
    \/ Idle /\ \E fcf_projections \in Projections, terminal_growth \in DiscountRates,
                  wacc \in DiscountRates,
                  net_debt \in {Whole(0), Whole(50)},
                  shares_outstanding \in {Whole(0), Whole(1), Whole(10)} :
                   CalcDcfValue(fcf_projections, terminal_growth, wacc, net_debt,
                                shares_outstanding)

\* the runs of the Monte Carlo engine
MaxSimulations == 2     \* largest simulation count requested
MaxSeed == 1            \* largest seed given to np.random.seed

Simulations == -1..MaxSimulations
Seeds == 0..MaxSeed
ProjectionYears == {1}
BaseFcfs == {Whole(100)}

\* a process that never seeded np.random starts anywhere in the stream
InitMonteCarlo ==
    /\ us_gaap = EmptyDict
    /\ call = [op |-> "none"]
    /\ ret = None
    /\ rng \in {[seed |-> Unseeded, pos |-> p] : p \in 0..(Len(StdNormal) - 1)}
    /\ runs = <<>>
    /\ frames = NoFrames
    /\ edgar_client = None
    /\ clients = <<>>
    /\ tasks = NoTasks

NextMonteCarlo ==
    \/ \E s \in Seeds : Seed(s)
    \/ OtherDraw
    \/ \E base_fcf \in BaseFcfs, num_years \in ProjectionYears, simulations \in Simulations :
           MonteCarloDcf(base_fcf, num_years, simulations)

\* two threads of one process, each making one call
InitScenarios ==
    /\ us_gaap = EmptyDict
    /\ call = [op |-> "none"]
    /\ ret = None
    /\ rng \in {[seed |-> Unseeded, pos |-> p] : p \in 0..(Len(StdNormal) - 1)}
    /\ runs = <<>>
    /\ frames = NoFrames
    /\ edgar_client = None
    /\ clients = <<>>
    /\ tasks = NoTasks

NextScenarios ==
    \E t \in Callers :
        \/ \E base_fcf \in BaseFcfs, num_years \in ProjectionYears, simulations \in Simulations :
               McEnter(t, base_fcf, num_years, simulations)
        \/ McGrowthRates(t)
        \/ McTerminalGrowths(t)
        \/ McWaccs(t)
        \/ McScenario(t)
        \/ McReturn(t)

\* the metrics dicts of a company and of its peers
MaxPeers == 3           \* peers a company is compared with

MetricValues(metric) == IF metric = "roe" THEN {Whole(2)} ELSE {Whole(1), Whole(2), Whole(3)}
MetricDicts ==
    {pe @@ roe : pe \in UNION {[keys -> MetricValues("pe_ratio")] : keys \in SUBSET {"pe_ratio"}},
                 roe \in UNION {[keys -> MetricValues("roe")] : keys \in SUBSET {"roe"}}}
CompanyMetrics == MetricDicts \cup {("ticker" :> "ACME") @@ d : d \in MetricDicts}
PeerDicts == {d \in MetricDicts : ("roe" \in DOMAIN d /\ "pe_ratio" \in DOMAIN d) => d["pe_ratio"] = Whole(2)}
PeerMetrics == UNION {[1..k -> PeerDicts] : k \in 0..MaxPeers}

\* price series and window lengths
MaxPrices == 4          \* prices in one series
MaxPeriod == 3          \* largest window

Prices == UNION {[1..k -> {Whole(1), Whole(2), Whole(3)}] : k \in 0..MaxPrices}
Windows == 0..MaxPeriod
EmaPeriods == 1..MaxPeriod

\* Series of market observations: MaxHistory or fewer observations at one
\* level, then 19 or 20 at another, so that the series is one observation
\* short of the trailing window, fills it exactly, or has a history before it.
\* The three series of a call have the same shape.
MaxHistory == 2         \* observations before the last level

Flat(x, n) == [i \in 1..n |-> x]
Shapes == {<<k, m>> : k \in 0..MaxHistory, m \in {TrailingWindow - 1, TrailingWindow}}
Series(shape, before, after) == Flat(before, shape[1]) \o Flat(after, shape[2])
ReturnLevels == {Percent(-11), Percent(-10), Percent(0), Percent(1), Percent(10), Percent(13)}
VolatilityLevels == {Percent(1), Percent(2)}
VolumeLevels == {Whole(60), Whole(100), Whole(140)}

InitIndicators ==
    /\ us_gaap = EmptyDict
    /\ call = [op |-> "none"]
    /\ ret = None
    /\ rng = [seed |-> Unseeded, pos |-> 0]
    /\ runs = <<>>
    /\ frames = NoFrames
    /\ edgar_client = None
    /\ clients = <<>>
    /\ tasks = NoTasks

NextIndicators ==
    \/ Idle /\ \E company_metrics \in CompanyMetrics, peer_metrics \in PeerMetrics :
                   CalcRelativeMetrics(company_metrics, peer_metrics)
    \/ Idle /\ \E prices \in Prices, period \in Windows : CalcRsi(prices, period)
    \/ Idle /\ \E prices \in Prices, fast \in EmaPeriods, slow \in EmaPeriods, signal \in EmaPeriods :
                   CalcMacd(prices, fast, slow, signal)
    \/ Idle /\ \E shape \in Shapes, r1 \in ReturnLevels, r2 \in ReturnLevels,
                   v1 \in VolumeLevels, v2 \in VolumeLevels,
                   s1 \in VolatilityLevels, s2 \in VolatilityLevels :
                   DetectRegime(Series(shape, r1, r2), Series(shape, v1, v2), Series(shape, s1, s2))

\* EdgarMCPServer.__init__
InitServer ==
    /\ us_gaap = EmptyDict
    /\ call = [op |-> "none"]
    /\ ret = None
    /\ rng = [seed |-> Unseeded, pos |-> 0]
    /\ runs = <<>>
    /\ frames = NoFrames
    /\ edgar_client = None
    /\ clients = <<>>
    /\ tasks = NoTasks

NextServer == \E t \in Tasks, created \in BOOLEAN : GetEdgarClient(t, created)

\* ------------------------------------------------------------------ specifications

\* candidate lists, in every order and with repetitions, over tags of which
\* "GrossProfit" is in no document
CandidateTags == {"Revenues", "SalesRevenueNet", "Cash", "GrossProfit"}
CandidateLists == UNION {[1..k -> CandidateTags] : k \in 0..MaxCandidates}

NextResolve == \E concept_names \in CandidateLists : ExtractConcept(concept_names)

Next ==
    \E period \in Periods, years \in Years :
        \/ get_income_statement(period, years)
        \/ get_balance_sheet(period, years)
        \/ get_cash_flow_statement(period, years)

Spec == InitFacts /\ [][Next]_vars
SpecResolve == InitFacts /\ [][NextResolve]_vars
SpecSeries == InitSeries /\ [][Next]_vars
SpecUnits == InitUnits /\ [][Next]_vars
SpecFaulty == InitFaulty /\ [][Next]_vars
SpecAnalysis == InitAnalysis /\ [][NextAnalysis]_vars
SpecMonteCarlo == InitMonteCarlo /\ [][NextMonteCarlo]_vars
SpecScenarios == InitScenarios /\ [][NextScenarios]_vars
SpecIndicators == InitIndicators /\ [][NextIndicators]_vars
SpecServer == InitServer /\ [][NextServer]_vars

\* ------------------------------------------------------------------ properties

IsStatement == call.op \in {"get_income_statement", "get_balance_sheet", "get_cash_flow_statement"}

\* a statement call with a horizon that is no caller misuse
ValidStatement == IsStatement /\ call.years >= 0

\* the registry the call made works through
Registry ==
    CASE call.op = "get_income_statement" -> IncomeItems
      [] call.op = "get_balance_sheet" -> BalanceItems
      [] call.op = "get_cash_flow_statement" -> CashFlowItems

\* the line items a statement holds
LineItems == {n \in DOMAIN ret.data : ret.data[n] # None}

\* the positions of the candidates that are keys of the facts
PresentAt(concept_names) == {i \in 1..Len(concept_names) : concept_names[i] \in DOMAIN us_gaap}
Resolved(concept_names) == PresentAt(concept_names) # {}

\* C1: _extract_concept returns the entry of the first candidate, in list
\* order, that is present in the facts, whatever later candidates are present
\* too, and None when no candidate is present.
C1_FirstPresentCandidate ==
    call.op = "_extract_concept" =>
        LET present == PresentAt(call.concept_names)
        IN  IF present = {} THEN ret = None
            ELSE \E i \in present :
                    /\ \A j \in present : i <= j
                    /\ ret = us_gaap[call.concept_names[i]]

\* the first candidate is absent, the second and a different third are present,
\* and the entry of the second was returned
C1_Witness ==
    /\ call.op = "_extract_concept"
    /\ Len(call.concept_names) = 3
    /\ PresentAt(call.concept_names) = {2, 3}
    /\ call.concept_names[2] # call.concept_names[3]
    /\ ret = us_gaap[call.concept_names[2]]
    /\ ret # us_gaap[call.concept_names[3]]

C1_NonePresent ==
    /\ call.op = "_extract_concept"
    /\ call.concept_names # <<>>
    /\ PresentAt(call.concept_names) = {}
    /\ ret = None

\* C2: the values of every line item are ordered by period end date,
\* non-increasing: values[i].end_date >= values[i+1].end_date.
C2_EndDateNonIncreasing ==
    IsStatement =>
        \A n \in LineItems :
            \A i \in 1..(Len(ret.data[n].values) - 1) :
                StrGeq(ret.data[n].values[i].end_date, ret.data[n].values[i + 1].end_date)

\* the series of the document, as reported (one concept, in USD)
InputSeries == us_gaap[SeriesTag].units[1].values

\* two values came out newest first from a series that held them oldest first
C2_Witness ==
    /\ IsStatement
    /\ "net_income" \in LineItems
    /\ Len(InputSeries) = 2
    /\ StrLess(InputSeries[1].end, InputSeries[2].end)
    /\ Len(ret.data["net_income"].values) = 2
    /\ ret.data["net_income"].values[1].end_date = InputSeries[2].end
    /\ ret.data["net_income"].values[2].end_date = InputSeries[1].end

\* C3: a line item has at most `years` values when the period is annual and
\* at most years*4 when it is quarterly.
C3_HorizonBound ==
    IsStatement =>
        \A n \in LineItems :
            Len(ret.data[n].values) <=
                (IF call.period = "annual" THEN call.years ELSE call.years * 4)

\* the family of forms a period asks for
Family(period) == IF period = "annual" THEN {"10-K", "20-F", "40-F"} ELSE {"10-Q"}

\* C4: annual normalization keeps only observations of form 10-K, 20-F or
\* 40-F, quarterly normalization only those of form 10-Q; observations of any
\* other form are discarded.
C4_FormFamily ==
    IsStatement =>
        \A n \in LineItems :
            \A i \in 1..Len(ret.data[n].values) :
                ret.data[n].values[i].form \in Family(call.period)

\* a series with an annual report, a quarterly report and a report of neither
\* family, of which values were kept
C4_Witness ==
    /\ IsStatement
    /\ "net_income" \in LineItems
    /\ \E i, j, k \in 1..Len(InputSeries) :
           /\ InputSeries[i].form = "10-K"
           /\ InputSeries[j].form = "10-Q"
           /\ InputSeries[k].form = "8-K"
    /\ ret.data["net_income"].values # <<>>

\* the annual observations of the series, and how many of them end later
AnnualAt == {i \in 1..Len(InputSeries) : InputSeries[i].form \in Family("annual")}
LaterThan(i) == {j \in AnnualAt : StrLess(InputSeries[i].end, InputSeries[j].end)}

Min(a, b) == IF a <= b THEN a ELSE b

\* the observations a statement returns for net income: those of its line
\* item, none when the slot is None
Returned == IF ret.data["net_income"] = None THEN <<>> ELSE ret.data["net_income"].values

\* C5: for a resolved concept with n annual observations at distinct period
\* end dates and horizon h, annual assembly returns exactly the min(n, h)
\* observations with the latest end dates, most recent first, whatever the
\* order of the observations in the input.
C5_LatestFirst ==
    ( /\ IsStatement
      /\ call.period = "annual"
      /\ call.years >= 0
      /\ "net_income" \in DOMAIN Registry
      /\ \A i, j \in AnnualAt : i # j => InputSeries[i].end # InputSeries[j].end )
    =>
        /\ Len(Returned) = Min(Cardinality(AnnualAt), call.years)
        /\ \A k \in 1..Len(Returned) :
               \E i \in AnnualAt :
                   /\ Cardinality(LaterThan(i)) = k - 1
                   /\ Returned[k] = FormatValue(InputSeries[i])

\* three annual observations, given oldest first, and a horizon of two: the
\* two latest came out, the latest first
C5_Witness ==
    /\ call.op = "get_income_statement"
    /\ call.period = "annual"
    /\ call.years = 2
    /\ AnnualAt = {1, 2, 3}
    /\ StrLess(InputSeries[1].end, InputSeries[2].end)
    /\ StrLess(InputSeries[2].end, InputSeries[3].end)
    /\ Len(Returned) = 2
    /\ Returned[1].end_date = InputSeries[3].end
    /\ Returned[2].end_date = InputSeries[2].end

\* the facts without the tags that are no candidate of the item
Restrict(facts, concept_names) ==
    [t \in {u \in DOMAIN facts : \E i \in 1..Len(concept_names) : concept_names[i] = u} |-> facts[t]]

\* C6: a statement has one slot for every semantic name of its registry; the
\* slot of a concept that is not in the facts holds None; and the slot of a
\* name is the one the facts of its own candidates alone give, whatever other
\* concepts are present or absent.
C6_OneSlotPerName ==
    IsStatement =>
        /\ DOMAIN ret.data = DOMAIN Registry
        /\ \A n \in DOMAIN Registry :
               /\ ~Resolved(Registry[n]) => ret.data[n] = None
               /\ ret.data[n] =
                      Statement(Restrict(us_gaap, Registry[n]), Registry,
                                ret.statement_type, call.period, call.years).data[n]

\* a statement with a line item next to an absent one
C6_Witness ==
    /\ IsStatement
    /\ \E n, m \in DOMAIN Registry :
           /\ ~Resolved(Registry[n])
           /\ ret.data[n] = None
           /\ Resolved(Registry[m])
           /\ ret.data[m] # None
           /\ ret.data[m].values # <<>>

\* the concept entry of the document, and its units
Entry == us_gaap[SeriesTag]
Units == Get(Entry, "units", EmptyDict)

\* the concept of an item is disclosed: a candidate tag is in the facts, with
\* an entry of the shape of the facts document (it has units, possibly none)
Disclosed(concept_names) ==
    /\ Resolved(concept_names)
    /\ "units" \in DOMAIN extract_concept(us_gaap, concept_names)

\* the concept has no observation of the requested family under any unit
NoFamilyObs(entry, period) ==
    \A i \in 1..Len(entry.units) :
        \A j \in 1..Len(entry.units[i].values) :
            entry.units[i].values[j].form \notin Family(period)

\* C7: a concept that is resolved but has no observation of the requested
\* form family yields a line item with an empty values sequence, not None;
\* None is produced only for a concept that is not disclosed at all.
C7_EmptyNotAbsent ==
    ValidStatement =>
        \A n \in DOMAIN Registry :
            /\ ret.data[n] = None => ~Disclosed(Registry[n])
            /\ (Disclosed(Registry[n])
                /\ NoFamilyObs(extract_concept(us_gaap, Registry[n]), call.period))
                   => /\ ret.data[n] # None
                      /\ ret.data[n].values = <<>>

\* the series of the document in every order
Reorderings ==
    {[i \in 1..Len(InputSeries) |-> InputSeries[p[i]]] : p \in Permutations(1..Len(InputSeries))}

\* C8: the order of the values is fully determined: observations with equal
\* period end are ordered by filed date descending, then by accession id, so
\* the same observations given in another order yield the same values.
C8_DeterministicOrder ==
    ValidStatement =>
        /\ \A n \in LineItems :
               \A i \in 1..(Len(ret.data[n].values) - 1) :
                   LET a == ret.data[n].values[i]
                       b == ret.data[n].values[i + 1]
                   IN  a.end_date = b.end_date =>
                           \/ StrLess(b.filed, a.filed)
                           \/ a.filed = b.filed /\ ~StrLess(b.accession, a.accession)
        /\ \A q \in Reorderings :
               Statement(SeriesTag :> Concept("Net income", <<Unit("USD", q)>>), Registry,
                         ret.statement_type, call.period, call.years).data = ret.data

\* the unit the values are to be taken from: USD when it has observations,
\* otherwise the first unit of the concept
ExpectedUnitData ==
    IF UnitGet(Units, "USD") # <<>> THEN UnitGet(Units, "USD")
    ELSE IF Units # <<>> THEN Units[1].values
    ELSE <<>>

\* C9: the values are taken from the USD unit when it is present with
\* observations and from the first available unit of the concept otherwise, so
\* a resolved concept with observations under any unit label is never absent.
C9_UnitFallback ==
    (ValidStatement /\ "net_income" \in DOMAIN Registry) =>
        /\ (\E i \in 1..Len(Units) : Units[i].values # <<>>) => ret.data["net_income"] # None
        /\ ret.data["net_income"] # None =>
               ret.data["net_income"].values =
                   FormatValues(Truncate(SortByEndDesc(FilterByForm(ExpectedUnitData, call.period)),
                                         call.period, call.years))

\* the text of a JSON scalar reads as a number
IsNumber(text) ==
    LET c == CodePoints(text)
    IN  /\ \E i \in 1..Len(c) : c[i] \in 48..57
        /\ \A i \in 1..Len(c) : c[i] \in 48..57 \/ c[i] = 46 \/ (i = 1 /\ c[i] = 45)

\* the series of the document without the values that are no numbers
NumericSeries == SelectSeq(InputSeries, LAMBDA value : IsNumber(value.val))

\* C10: an observation whose raw value is no number is skipped: it is not
\* among the values of the line item, and the other observations of the series
\* are returned as they are without it.
C10_NonNumericSkipped ==
    ValidStatement =>
        /\ \A n \in LineItems :
               \A i \in 1..Len(ret.data[n].values) : IsNumber(ret.data[n].values[i].value)
        /\ \A n \in LineItems :
               ret.data[n].values =
                   FormatValues(Truncate(SortByEndDesc(FilterByForm(NumericSeries, call.period)),
                                         call.period, call.years))

\* C11: caller misuse is reported as an error: a statement call with a
\* negative horizon surfaces an error to the caller instead of a result.
C11_MisuseReported ==
    (IsStatement /\ call.years < 0) => IsError(ret)

\* C12: a failure in the processing of one concept is contained to its line
\* item: a statement call with a valid horizon returns the statement, with
\* the sound line item net_income assembled as it is without the failure.
C12_FailureContained ==
    ValidStatement =>
        /\ ~IsError(ret)
        /\ "net_income" \in DOMAIN Registry =>
               ret.data.net_income =
                   FilterItem("net_income", us_gaap[SeriesTag], call.period, call.years)


\* C13: with total_assets # 0 the Z-score returned is classified Safe Zone
\* exactly when Z > 2.99, Grey Zone exactly when 1.81 < Z <= 2.99 and Distress
\* Zone exactly when Z <= 1.81; with total_assets = 0 the result is the score
\* 0 with the cannot-calculate classification.
C13_AltmanZones ==
    call.op = "calculate_altman_z_score" =>
        LET z == ret.z_score
            zone == ret.interpretation
        IN  IF call.total_assets = Zero
            THEN z = Zero /\ zone = "Cannot calculate - Invalid data"
            ELSE /\ zone = "Safe Zone - Low bankruptcy risk" <=> RLess(Rat(299, 100), z)
                 /\ zone = "Grey Zone - Moderate bankruptcy risk"
                        <=> (RLess(Rat(181, 100), z) /\ RLeq(z, Rat(299, 100)))
                 /\ zone = "Distress Zone - High bankruptcy risk" <=> RLeq(z, Rat(181, 100))

\* a Z-score of exactly 2.99, which is Grey
C13_Witness ==
    /\ call.op = "calculate_altman_z_score"
    /\ call.total_assets # Zero
    /\ ret = [z_score |-> Rat(299, 100),
              interpretation |-> "Grey Zone - Moderate bankruptcy risk"]

\* C14: calculate_piotroski_f_score returns an integer score between 0 and 9
\* and exactly nine boolean criteria, and the score is the number of criteria
\* that are true.
C14_ScoreCountsCriteria ==
    call.op = "calculate_piotroski_f_score" =>
        LET score == ret.score
            criteria == ret.criteria
        IN  /\ score \in 0..9
            /\ Cardinality(DOMAIN criteria) = 9
            /\ \A c \in DOMAIN criteria : criteria[c] \in BOOLEAN
            /\ score = Cardinality({c \in DOMAIN criteria : criteria[c]})

\* some criteria hold and some do not
C14_Witness ==
    /\ call.op = "calculate_piotroski_f_score"
    /\ ret.score = 5
    /\ ret.criteria.quality_earnings
    /\ ~ret.criteria.positive_roa

\* the inputs each criterion reads
Requires ==
    [positive_roa |-> {"roa"},
     positive_ocf |-> {"operating_cash_flow"},
     increasing_roa |-> {"roa_change"},
     quality_earnings |-> {"operating_cash_flow", "net_income"},
     decreasing_leverage |-> {"leverage_change"},
     increasing_liquidity |-> {"current_ratio_change"},
     no_dilution |-> {"shares_change"},
     increasing_margin |-> {"gross_margin_change"},
     increasing_efficiency |-> {"asset_turnover_change"}]

\* C15: a criterion of the F-score is false when the financials mapping has
\* none of the inputs it reads, and the score of the empty mapping is 0.
C15_MissingInputIsFalse ==
    call.op = "calculate_piotroski_f_score" =>
        /\ \A c \in DOMAIN Requires :
               Requires[c] \cap DOMAIN call.financials = {} => ~ret.criteria[c]
        /\ call.financials = EmptyDict => ret.score = 0

\* C16: calculate_ev_to_ebitda returns the infinite sentinel for every
\* EBITDA <= 0 and enterprise_value / ebitda otherwise; calculate_peg_ratio
\* returns it for every growth rate <= 0 and pe_ratio / growth_rate otherwise.
C16_InfiniteSentinel ==
    /\ call.op = "calculate_ev_to_ebitda" =>
           ret = IF RLeq(call.ebitda, Zero) THEN Inf
                 ELSE RDiv(call.enterprise_value, call.ebitda)
    /\ call.op = "calculate_peg_ratio" =>
           ret = IF RLeq(call.growth_rate, Zero) THEN Inf
                 ELSE RDiv(call.pe_ratio, call.growth_rate)

\* calculate_ev_to_ebitda(1200, 0) and a negative EBITDA
C16_Witness ==
    /\ call.op = "calculate_ev_to_ebitda"
    /\ call.enterprise_value = Whole(1200)
    /\ call.ebitda \in {Whole(0), Whole(-300)}
    /\ ret = Inf

\* C17: calculate_wacc returns equity_weight * cost_of_equity + debt_weight *
\* cost_of_debt * (1 - tax_rate), the weights being the shares of market_cap
\* and total_debt in their sum (800, 200, 0.12, 0.05, 0.21 gives 0.1039), and
\* 0.10 when that sum is 0.
C17_Wacc ==
    call.op = "calculate_wacc" =>
        LET total == RAdd(call.market_cap, call.total_debt)
        IN  /\ total = Zero => ret = Rat(1, 10)
            /\ total # Zero =>
                   ret = RAdd(RMul(RDiv(call.market_cap, total), call.cost_of_equity),
                              RMul(RDiv(call.total_debt, total),
                                   RMul(call.cost_of_debt, RSub(One, call.tax_rate))))
            /\ (/\ call.market_cap = Whole(800) /\ call.total_debt = Whole(200)
                /\ call.cost_of_equity = Percent(12) /\ call.cost_of_debt = Percent(5)
                /\ call.tax_rate = Percent(21)) => ret = Rat(1039, 10000)

C17_Witness ==
    /\ call.op = "calculate_wacc"
    /\ call.market_cap = Whole(800) /\ call.total_debt = Whole(200)
    /\ call.tax_rate = Percent(21)
    /\ ret = Rat(1039, 10000)

\* C18: calculate_terminal_value returns 0 whenever WACC <= terminal growth
\* and final_fcf * (1 + g) / (WACC - g) otherwise, and calculate_dcf_value
\* called on a projection with WACC = terminal growth completes, with a
\* discounted terminal value of 0.
C18_TerminalDegenerate ==
    /\ call.op = "calculate_terminal_value" =>
           ret = IF RLeq(call.wacc, call.terminal_growth) THEN Zero
                 ELSE RDiv(RMul(call.final_fcf, RAdd(One, call.terminal_growth)),
                           RSub(call.wacc, call.terminal_growth))
    /\ (/\ call.op = "calculate_dcf_value"
        /\ call.fcf_projections # <<>>
        /\ call.wacc = call.terminal_growth) =>
           /\ ~IsError(ret)
           /\ ret.pv_terminal = Zero


\* C19: the result of monte_carlo_dcf over one or more simulated values has
\* percentile_5 <= median_value <= percentile_95, and its confidence_interval
\* is the pair (percentile_5, percentile_95).
C19_PercentilesOrdered ==
    (call.op = "monte_carlo_dcf" /\ call.simulations >= 1 /\ ~IsError(ret)) =>
        /\ RLeq(ret.percentile_5, ret.median_value)
        /\ RLeq(ret.median_value, ret.percentile_95)
        /\ ret.confidence_interval = <<ret.percentile_5, ret.percentile_95>>

\* two simulated values that differ
C19_Witness ==
    /\ call.op = "monte_carlo_dcf"
    /\ call.simulations = 2
    /\ ~IsError(ret)
    /\ RLess(ret.percentile_5, ret.median_value)
    /\ RLess(ret.median_value, ret.percentile_95)

\* C20: two runs of monte_carlo_dcf that were given the same seed and the
\* same arguments return identical results, whatever was drawn from the
\* generator before or between them.
C20_SeededReproducible ==
    \A i, j \in 1..Len(runs) :
        (/\ runs[i].seed.seeded
         /\ runs[i].seed = runs[j].seed
         /\ runs[i].base_fcf = runs[j].base_fcf
         /\ runs[i].num_years = runs[j].num_years
         /\ runs[i].simulations = runs[j].simulations
         /\ runs[i].simulations >= 1) =>
            runs[i].result = runs[j].result

\* the value of simulation i of frame f when the call runs alone from the
\* position the generator had when the call was entered
AloneValue(f, i) ==
    LET n == f.simulations
        years == IF f.num_years > 0 THEN f.num_years ELSE 0
        alone == [f EXCEPT !.growth_rates = NormalArray(Percent(5), Percent(2), n, f.start),
                           !.terminal_growths = NormalArray(Rat(25, 1000), Percent(1), n, f.start + n),
                           !.waccs = NormalArray(Percent(10), Percent(2), n, f.start + 2 * n)]
    IN  Scenario(alone, i, f.start + 3 * n + (i - 1) * years).intrinsic_value_per_share

\* C21: the value monte_carlo_dcf computes for simulation i is the value the
\* same call computes for it when it runs alone: it does not depend on what
\* another simulation or a concurrently running call read or wrote.
C21_DrawsIndependent ==
    \A t \in Callers :
        \A i \in 1..Len(frames[t].results) :
            frames[t].results[i] = AloneValue(frames[t], i)

\* the metrics the company and at least one peer carry
Shared == {metric \in DOMAIN call.company_metrics \ Labels : \E i \in 1..Len(call.peer_metrics) : metric \in DOMAIN call.peer_metrics[i]}
Carried(metric) == PeerValues(call.peer_metrics, metric)
StrictlyBelow(metric) == {i \in 1..Len(Carried(metric)) : RLess(Carried(metric)[i], call.company_metrics[metric])}

\* the z-score of the claim: 0 without a positive peer standard deviation
ExpectedZ(metric) ==
    IF Len(Carried(metric)) < 2 \/ Variance(Carried(metric)) = Zero THEN Zero
    ELSE OverRoot(RSub(call.company_metrics[metric], Mean(Carried(metric))), Variance(Carried(metric)))

\* C22 as stated: the percentile rank of every shared metric is the fraction
\* of peers strictly below the company, and its z-score is
\* (company - peer_mean) / peer_stdev, 0 when the peer standard deviation is
\* 0 or fewer than 2 peers carry the metric.
C22_RelativeMetricsFraction ==
    call.op = "calculate_relative_metrics" =>
        /\ DOMAIN ret.results = Shared
        /\ \A metric \in Shared :
               /\ ret.results[metric].percentile_rank = Rat(Cardinality(StrictlyBelow(metric)), Len(Carried(metric)))
               /\ ret.results[metric].z_score = ExpectedZ(metric)

\* C22: the percentile rank of every shared metric is 100 times the fraction
\* of peers strictly below the company (a rank between 0 and 100), and its
\* z-score is (company - peer_mean) / peer_stdev, 0 when the peer standard
\* deviation is 0 or fewer than 2 peers carry the metric.
C22_RelativeMetrics ==
    call.op = "calculate_relative_metrics" =>
        /\ DOMAIN ret.results = Shared
        /\ \A metric \in Shared :
               /\ ret.results[metric].percentile_rank = RMul(Whole(100), Rat(Cardinality(StrictlyBelow(metric)), Len(Carried(metric))))
               /\ ret.results[metric].z_score = ExpectedZ(metric)

\* three peers carry the metric, one below the company, one equal to it and
\* one above it, and the z-score is not 0
C22_Witness ==
    /\ call.op = "calculate_relative_metrics"
    /\ "pe_ratio" \in Shared
    /\ Len(Carried("pe_ratio")) = 3
    /\ Cardinality(StrictlyBelow("pe_ratio")) = 1
    /\ \E i \in 1..3 : Carried("pe_ratio")[i] = call.company_metrics["pe_ratio"]
    /\ ret.results["pe_ratio"].percentile_rank = Rat(100, 3)
    /\ ret.results["pe_ratio"].z_score # Zero

\* C23: calculate_rsi returns an empty sequence, and raises nothing, for
\* every price series shorter than period + 1.
C23_ShortSeriesEmpty ==
    (call.op = "calculate_rsi" /\ Len(call.prices) < call.period + 1) =>
        /\ ~IsError(ret)
        /\ ret.rsi_values = <<>>

\* a series of prices that change, one price short of period + 1
C23_Witness ==
    /\ call.op = "calculate_rsi"
    /\ call.period = 3
    /\ Len(call.prices) = 3
    /\ call.prices[1] # call.prices[2]
    /\ ret = [rsi_values |-> <<>>]

\* C29: calculate_rsi returns an empty sequence exactly for the series
\* shorter than period + 1; for every other series it returns
\* Len(prices) - period values, one for each price from index period on,
\* each between 0 and 100 (for windows of one price change or more).
C29_RsiLength ==
    (call.op = "calculate_rsi" /\ call.period >= 1) =>
        /\ ~IsError(ret)
        /\ ret.rsi_values = <<>> <=> Len(call.prices) < call.period + 1
        /\ Len(call.prices) >= call.period + 1 => Len(ret.rsi_values) = Len(call.prices) - call.period
        /\ \A i \in 1..Len(ret.rsi_values) : RLeq(Zero, ret.rsi_values[i]) /\ RLeq(ret.rsi_values[i], Whole(100))

\* the exponential moving average of window period at index p of series
\* (counted from 1, p >= period): the simple average of the first period
\* values, smoothed with 2 / (period + 1) from there on
RECURSIVE EmaAt(_, _, _)
EmaAt(series, period, p) ==
    IF p <= period THEN RDiv(Sum(SubSeq(series, 1, period)), Whole(period))
    ELSE LET before == EmaAt(series, period, p - 1)
         IN  RAdd(before, RMul(Rat(2, period + 1), RSub(series[p], before)))

\* C24: for a series of at least slow prices and fast < slow, element j of
\* the MACD line is the fast EMA minus the slow EMA at the same price (the
\* one at slow - 1 + j, counted from 0), the signal line is the EMA of the
\* MACD line, and element k of the histogram is element signal - 1 + k of
\* the MACD line minus element k of the signal line, the histogram being as
\* long as the signal line.
C24_MacdAligned ==
    (call.op = "calculate_macd" /\ Len(call.prices) >= call.slow /\ call.fast < call.slow) =>
        /\ Len(ret.macd) = Len(call.prices) - call.slow + 1
        /\ \A j \in 1..Len(ret.macd) :
               ret.macd[j] = RSub(EmaAt(call.prices, call.fast, call.slow - 1 + j),
                                  EmaAt(call.prices, call.slow, call.slow - 1 + j))
        /\ Len(ret.signal) = (IF Len(ret.macd) < call.signal THEN 0 ELSE Len(ret.macd) - call.signal + 1)
        /\ \A k \in 1..Len(ret.signal) : ret.signal[k] = EmaAt(ret.macd, call.signal, call.signal - 1 + k)
        /\ Len(ret.histogram) = Len(ret.signal)
        /\ \A k \in 1..Len(ret.histogram) :
               ret.histogram[k] = RSub(ret.macd[call.signal - 1 + k], ret.signal[k])

\* prices that move, two values of the signal line and a histogram that is
\* not flat
C24_Witness ==
    /\ call.op = "calculate_macd"
    /\ call.fast = 1
    /\ call.slow = 2
    /\ call.signal = 2
    /\ Len(call.prices) = 4
    /\ Len(ret.signal) = 2
    /\ ret.histogram[1] # ret.histogram[2]

\* the labels of the six regimes, with and without a volume confirmation
Confirmations == {"", " (High Volume)", " (Low Volume)"}
BullLabels == {b \o v : b \in {"Bull Market - Low Volatility", "Bull Market - High Volatility"}, v \in Confirmations}
BearLabels == {b \o v : b \in {"Bear Market - High Volatility", "Bear Market - Low Volatility"}, v \in Confirmations}
OtherLabels == {b \o v : b \in {"Consolidation - Low Volatility", "Transition - Mixed Signals"}, v \in Confirmations}

\* C25: detect_regime reports "Insufficient data" with confidence 0 for
\* fewer than 20 return observations, and for every other input one of the
\* regimes with a confidence between 0 and 1.
C25_RegimeConfidence ==
    call.op = "detect_regime" =>
        IF Len(call.returns) < 20
        THEN ret.regime = "Insufficient data" /\ ret.confidence = Zero
        ELSE /\ ret.regime \in BullLabels \cup BearLabels \cup OtherLabels
             /\ RLeq(Zero, ret.confidence)
             /\ RLeq(ret.confidence, One)

\* a series with a history before the window, whose regime is confirmed by
\* a high volume
C25_Witness ==
    /\ call.op = "detect_regime"
    /\ Len(call.returns) > 20
    /\ ret.regime = "Bull Market - Low Volatility (High Volume)"
    /\ ret.confidence = Rat(9, 10)

\* the two means of return that detect_regime compares
RecentReturn == Mean(SubSeq(call.returns, Len(call.returns) - 19, Len(call.returns)))
HistReturn == Mean(SubSeq(call.returns, 1, Len(call.returns) - 20))

\* C30: when detect_regime reports a Bull Market the mean return of the last
\* 20 observations is strictly greater than the mean return of the
\* observations before them, and when it reports a Bear Market it is
\* strictly smaller, whatever the sign of the historical mean.
C30_BullAboveBearBelow ==
    (call.op = "detect_regime" /\ Len(call.returns) >= 20) =>
        /\ ret.regime \in BullLabels => FLess(HistReturn, RecentReturn)
        /\ ret.regime \in BearLabels => FLess(RecentReturn, HistReturn)

\* the references the calls of get_edgar_client returned
ReturnedTo(t) == {tasks[t][i].returned : i \in {j \in 1..Len(tasks[t]) : ~IsError(tasks[t][j])}}
ReturnedClients == UNION {ReturnedTo(t) : t \in Tasks}

\* C26: over all calls of get_edgar_client on one server, by any tasks in
\* any order, at most one EdgarClient is created, its __aenter__ is called
\* at most once, and every call that returns returns that client.
C26_OneClient ==
    /\ Len(clients) <= 1
    /\ \A k \in 1..Len(clients) : clients[k].aenter_calls <= 1
    /\ ReturnedClients \subseteq {edgar_client}

\* every task has called, one of them twice, and all got the one client
C26_Witness ==
    /\ \A t \in Tasks : Len(tasks[t]) >= 1
    /\ \E t \in Tasks : Len(tasks[t]) >= 2
    /\ \A t \in Tasks : \A i \in 1..Len(tasks[t]) : tasks[t][i] = [returned |-> Ref(1)]
    /\ clients = <<[session |-> ClientSession, aenter_calls |-> 1]>>

\* C27: every client returned by get_edgar_client has its session set, also
\* to the calls that follow a call whose __aenter__ raised.
C27_ReturnedClientEntered ==
    \A r \in ReturnedClients : clients[r.ref].session # None

\* the label of the unit whose observations _filter_by_period took: USD when
\* it has observations, otherwise the first unit in USD or in shares
TakenFrom ==
    LET hits == {i \in 1..Len(Units) : OtherCurrency(Units[i].label)}
    IN  IF UnitGet(Units, "USD") # <<>> THEN "USD"
        ELSE Units[CHOOSE i \in hits : \A j \in hits : i <= j].label

\* C28: the unit label of a line item is the label of the unit its values
\* were taken from, whatever units the concept has.
C28_UnitLabelOfValues ==
    (ValidStatement /\ "net_income" \in DOMAIN Registry /\ ret.data["net_income"] # None) =>
        ret.data["net_income"].unit = TakenFrom

====
